---- MODULE Spec2Model ----
(***************************************************************************)
(* Verification model of the rshogi analysis harness                       *)
(* (packages/rust-core/scripts/analysis/*.py).                             *)
(*                                                                         *)
(* The harness is a set of single-threaded command line programs.  Each    *)
(* program is modelled by its own specification over its own group of      *)
(* variables; the variables of the other programs stay at their idle       *)
(* values.  Text is modelled as a sequence of one-character strings, so    *)
(* that splitting, stripping, joining and substring search are computed    *)
(* and not assumed.  An optional value (Python None or a value) is the     *)
(* empty sequence or a one-element sequence.                               *)
(***************************************************************************)
EXTENDS Integers, Sequences, FiniteSets, TLC

VARIABLES
    \* extract_eval_spikes.py: main's locals
    sp_pc, sp_evals, sp_threshold, sp_spikes, sp_topk, sp_kept,
    \* chop_moves of the two target generators, applied to one position
    ch_pc, ch_pos, ch_back, ch_logs, ch_moves, ch_head, ch_toks,
    \* make_targets_from_logs.py / make_targets_from_moves.py: main's locals
    \* (tg_cands: every (spike, rewind depth) pair processed so far, in order)
    tg_pc, tg_variant, tg_args, tg_groups, tg_next,
    uniq_positions, targets, tg_cands,
    \* summarize_drop_metrics.py: main's locals (mt_summary: summary.json)
    mt_pc, mt_summary, mt_profile, mt_bad_th, rows, mt_i,
    total, bad, cp_sum, depth_sum, valid, out,
    \* spsa_optimize.py: main's locals (op_newv: int(round(newv)) of the last
    \* update, per tunable)
    op_pc, cfg, iters, it, theta, delta_sign, theta_plus, theta_minus,
    m_plus, m_minus, op_newv,
    \* run_regression_checks.py: RegressionSuite.run (rg_scenarios:
    \* self.scenarios, rg_i: the place of the for loop in it, rg_ran: the names
    \* of the scenarios run so far, rg_last: the last scenario run with its
    \* replay and its verdict, rg_printed: the output, rg_ret: the return value)
    rg_pc, rg_scenarios, rg_i, rg_ran, rg_last, failures, rg_printed, rg_ret,
    \* run_eval_targets.py: run_one and _read_until (ss_engine: what the
    \* engine answers to each command, ss_call: which _read_until call is
    \* running, ss_pos: the bytes read from the pipe so far, ss_sent: the
    \* commands written to the engine, ss_log: the log file, ss_returns: what
    \* the _read_until calls returned, ss_proc: the engine process, ss_result:
    \* what run_one returns)
    ss_pc, ss_engine, ss_call, ss_pos, buf, out_lines, ss_sent, ss_log,
    ss_returns, ss_proc, ss_result,
    \* run_usi_ab_test.py: main and run_engine (ab_file: what is at the engine
    \* path, ab_args: the arguments, ab_group: which pass of the loops over
    \* the threads and the sets is running, ab_i: the trial of the group,
    \* ab_results: the records of the group's trials, ab_proc: the engine
    \* process of the trial, ab_events: what the driver has done in the
    \* session, ab_nread: how many lines it has read in the session,
    \* ab_ended: how the last session ended)
    ab_pc, ab_file, ab_args, ab_group, ab_i, ab_results, ab_proc, ab_sent,
    ab_events, ab_nread, ab_bestmove, ab_last_info, ab_final, ab_postdrop,
    ab_postbest, ab_ended,
    \* run_one's reading of the collected lines, applied to given lines
    pr_pc, pr_lines, pr_result,
    \* parse_log and parse_bestmoves_with_positions, applied to a transcript
    tr_pc, tr_variant, tr_lines, tr_out,
    \* summarize_first_bad_metrics.py: main (fb_targets: targets.json,
    \* fb_summary: summary.json, fb_csv: the tags of
    \* true_blunders_first_bad.csv when the file is there, fb_script: whether
    \* summarize_true_blunders.py can be run from the working directory,
    \* fb_tags: tags, fb_out: what is printed)
    fb_pc, fb_targets, fb_summary, fb_profile, fb_csv, fb_script, fb_tags,
    rows_fb, fb_out,
    \* make_targets_from_moves.py: the reading of the move records in main
    \* (rd_files: the files named by the arguments, rd_side: --side, rd_f and
    \* rd_l: the file and the line of the loops, rd_summary: summary_lines,
    \* rd_raised: the exception that ended the run, rd_groups: the groups with
    \* their records in the order they are gone through)
    rd_pc, rd_files, rd_side, rd_f, rd_l, by_group, rd_summary, rd_raised,
    rd_groups,
    \* the waits for an engine reply: _read_until of run_eval_targets.py and
    \* the readline loops of run_engine (wt_engine: when the engine writes its
    \* lines and when it closes its output, wt_clock: the time in ticks,
    \* wt_end: the deadline, wt_read: the lines read, wt_ended: how and when
    \* the wait ended)
    wt_pc, wt_driver, wt_engine, wt_clock, wt_end, wt_read, wt_ended,
    \* expand_targets_back.py
    eb_pc, eb_base, eb_min, eb_max, eb_i, eb_out,
    \* expand_windows of extract_eval_spikes.py
    ew_pc, ew_indices, ew_back, ew_forward, ew_nmax, ew_i, wanted, ew_out,
    \* the option names of the two target runners
    on_pc, on_opts, on_i, on_sent_targets, on_sent_params

spVars == <<sp_pc, sp_evals, sp_threshold, sp_spikes, sp_topk, sp_kept>>
chVars == <<ch_pc, ch_pos, ch_back, ch_logs, ch_moves, ch_head, ch_toks>>
tgVars == <<tg_pc, tg_variant, tg_args, tg_groups, tg_next,
            uniq_positions, targets, tg_cands>>
mtVars == <<mt_pc, mt_summary, mt_profile, mt_bad_th, rows, mt_i,
            total, bad, cp_sum, depth_sum, valid, out>>
opVars == <<op_pc, cfg, iters, it, theta, delta_sign, theta_plus, theta_minus,
            m_plus, m_minus, op_newv>>
rgVars ==
    <<rg_pc, rg_scenarios, rg_i, rg_ran, rg_last, failures, rg_printed, rg_ret>>
ssVars ==
    <<ss_pc, ss_engine, ss_call, ss_pos, buf, out_lines, ss_sent, ss_log,
      ss_returns, ss_proc, ss_result>>
abVars ==
    <<ab_pc, ab_file, ab_args, ab_group, ab_i, ab_results, ab_proc, ab_sent,
      ab_events,
      ab_nread, ab_bestmove, ab_last_info, ab_final, ab_postdrop, ab_postbest,
      ab_ended>>
prVars == <<pr_pc, pr_lines, pr_result>>
trVars == <<tr_pc, tr_variant, tr_lines, tr_out>>
fbVars == <<fb_pc, fb_targets, fb_summary, fb_profile, fb_csv, fb_script,
            fb_tags, rows_fb, fb_out>>
rdVars == <<rd_pc, rd_files, rd_side, rd_f, rd_l, by_group, rd_summary,
            rd_raised, rd_groups>>
wtVars == <<wt_pc, wt_driver, wt_engine, wt_clock, wt_end, wt_read, wt_ended>>
ebVars == <<eb_pc, eb_base, eb_min, eb_max, eb_i, eb_out>>
ewVars == <<ew_pc, ew_indices, ew_back, ew_forward, ew_nmax, ew_i, wanted, ew_out>>
onVars == <<on_pc, on_opts, on_i, on_sent_targets, on_sent_params>>
vars == <<spVars, chVars, tgVars, mtVars, opVars, rgVars, ssVars, abVars, prVars, trVars, fbVars, rdVars, wtVars, ebVars, ewVars, onVars>>

\* what each program leaves alone: the variables of the other programs
notSp == <<chVars, tgVars, mtVars, opVars, rgVars, ssVars, abVars, prVars, trVars, fbVars, rdVars, wtVars, ebVars, ewVars, onVars>>
notCh == <<spVars, tgVars, mtVars, opVars, rgVars, ssVars, abVars, prVars, trVars, fbVars, rdVars, wtVars, ebVars, ewVars, onVars>>
notTg == <<spVars, chVars, mtVars, opVars, rgVars, ssVars, abVars, prVars, trVars, fbVars, rdVars, wtVars, ebVars, ewVars, onVars>>
notMt == <<spVars, chVars, tgVars, opVars, rgVars, ssVars, abVars, prVars, trVars, fbVars, rdVars, wtVars, ebVars, ewVars, onVars>>
notOp == <<spVars, chVars, tgVars, mtVars, rgVars, ssVars, abVars, prVars, trVars, fbVars, rdVars, wtVars, ebVars, ewVars, onVars>>
notRg == <<spVars, chVars, tgVars, mtVars, opVars, ssVars, abVars, prVars, trVars, fbVars, rdVars, wtVars, ebVars, ewVars, onVars>>
notSs == <<spVars, chVars, tgVars, mtVars, opVars, rgVars, abVars, prVars, trVars, fbVars, rdVars, wtVars, ebVars, ewVars, onVars>>
notAb == <<spVars, chVars, tgVars, mtVars, opVars, rgVars, ssVars, prVars, trVars, fbVars, rdVars, wtVars, ebVars, ewVars, onVars>>
notPr == <<spVars, chVars, tgVars, mtVars, opVars, rgVars, ssVars, abVars, trVars, fbVars, rdVars, wtVars, ebVars, ewVars, onVars>>
notTr == <<spVars, chVars, tgVars, mtVars, opVars, rgVars, ssVars, abVars, prVars, fbVars, rdVars, wtVars, ebVars, ewVars, onVars>>
notFb == <<spVars, chVars, tgVars, mtVars, opVars, rgVars, ssVars, abVars, prVars, trVars, rdVars, wtVars, ebVars, ewVars, onVars>>
notRd == <<spVars, chVars, tgVars, mtVars, opVars, rgVars, ssVars, abVars, prVars, trVars, fbVars, wtVars, ebVars, ewVars, onVars>>
notWt == <<spVars, chVars, tgVars, mtVars, opVars, rgVars, ssVars, abVars, prVars, trVars, fbVars, rdVars, ebVars, ewVars, onVars>>
notEb == <<spVars, chVars, tgVars, mtVars, opVars, rgVars, ssVars, abVars, prVars, trVars, fbVars, rdVars, wtVars, ewVars, onVars>>
notEw == <<spVars, chVars, tgVars, mtVars, opVars, rgVars, ssVars, abVars, prVars, trVars, fbVars, rdVars, wtVars, ebVars, onVars>>
notOn == <<spVars, chVars, tgVars, mtVars, opVars, rgVars, ssVars, abVars, prVars, trVars, fbVars, rdVars, wtVars, ebVars, ewVars>>

(***************************************************************************)
(* Generic helpers                                                         *)
(***************************************************************************)
None == <<>>
Some(v) == <<v>>
IsNone(o) == o = <<>>
Val(o) == o[1]

Abs(x) == IF x < 0 THEN -x ELSE x
Max2(a, b) == IF a >= b THEN a ELSE b
Min2(a, b) == IF a <= b THEN a ELSE b

\* All sequences over S of length 0..n
SeqsUpTo(S, n) == UNION {[1..k -> S] : k \in 0..n}

(***************************************************************************)
(* Bounds                                                                  *)
(***************************************************************************)
MaxEvals == 4
MaxMoves == 4
MaxBack == 4
MaxBaseTargets == 2
MaxBaseMoves == 3
MaxExpandBack == 3
MaxPly == 4
MaxRadius == 2
MaxIndices == 2
MaxOptions == 2
MaxGroups == 2
MaxRows == 3
MaxIters == 2
MaxScenarios == 2
MaxTrials == 1
MaxReads == 3

(***************************************************************************)
(* compute_spikes                                                          *)
(***************************************************************************)
\* The loop of compute_spikes: `prev` is None before the first sample.
compute_spikes_gt(evals, threshold) ==
    LET RECURSIVE loop(_, _, _)
        loop(i, prev, acc) ==
            IF i > Len(evals) THEN acc
            ELSE IF IsNone(prev) THEN loop(i + 1, Some(evals[i]), acc)
            ELSE LET delta == evals[i] - Val(prev)
                 IN loop(i + 1, Some(evals[i]),
                         IF Abs(delta) > threshold
                         THEN Append(acc, <<i, delta>>) ELSE acc)
    IN loop(1, None, <<>>)

compute_spikes(evals, threshold) ==
    LET RECURSIVE loop(_, _, _)
        loop(i, prev, acc) ==
            IF i > Len(evals) THEN acc
            ELSE IF IsNone(prev) THEN loop(i + 1, Some(evals[i]), acc)
            ELSE LET delta == evals[i] - Val(prev)
                 IN loop(i + 1, Some(evals[i]),
                         IF Abs(delta) >= threshold
                         THEN Append(acc, <<i, delta>>) ELSE acc)
    IN loop(1, None, <<>>)

EvalValues == {-300, -280, 0, 50, 120}
Thresholds == {-1, 0, 20, 300, 400}
\* --topk: 0 is 'no limit'
TopKs == {0, 1, 2, 3}

spIdle ==
    /\ sp_pc = "off" /\ sp_evals = <<>> /\ sp_threshold = 0 /\ sp_spikes = <<>>
    /\ sp_topk = 0 /\ sp_kept = <<>>

\* extract_eval_spikes.main, line 101: parse_log has returned evals and moves,
\* one eval for each move
InitSpikes ==
    /\ sp_pc = "start"
    /\ sp_evals \in SeqsUpTo(EvalValues, MaxEvals)
    /\ sp_threshold \in Thresholds
    /\ sp_spikes = <<>>
    /\ sp_topk \in TopKs
    /\ sp_kept = <<>>

\* lines 102-104: `if not moves`: a log without a decision line ends the
\* run with exit status 1, before compute_spikes
NoMoves ==
    /\ sp_pc = "start" /\ sp_evals = <<>>
    /\ sp_pc' = "exit 1"
    /\ UNCHANGED <<sp_evals, sp_threshold, sp_spikes, sp_topk, sp_kept>>
    /\ UNCHANGED notSp

\* line 106: spikes = compute_spikes(evals, args.threshold)
ComputeSpikes ==
    /\ sp_pc = "start" /\ sp_evals # <<>>
    /\ sp_spikes' = compute_spikes(sp_evals, sp_threshold)
    /\ sp_pc' = "spikes"
    /\ UNCHANGED <<sp_evals, sp_threshold, sp_topk, sp_kept>>
    /\ UNCHANGED notSp

\* C1: compute_spikes returns, in increasing index order, exactly the pairs
\* (i, E[i]-E[i-1]) for the indices i in 2..L with |E[i]-E[i-1]| >= T; index 1
\* is never flagged and a series of length 0 or 1 yields no spike (a series
\* of length 0 ends the run before any spike is looked for).
C1_SpikesExact ==
    /\ sp_pc = "spikes" =>
        LET E == sp_evals
            L == Len(E)
            Flagged == {i \in 2..L : Abs(E[i] - E[i - 1]) >= sp_threshold}
        IN /\ {sp_spikes[j][1] : j \in 1..Len(sp_spikes)} = Flagged
           /\ Len(sp_spikes) = Cardinality(Flagged)
           /\ \A j \in 1..Len(sp_spikes) :
                 sp_spikes[j][2] = E[sp_spikes[j][1]] - E[sp_spikes[j][1] - 1]
           /\ \A j \in 1..(Len(sp_spikes) - 1) :
                 sp_spikes[j][1] < sp_spikes[j + 1][1]
           /\ (L <= 1 => sp_spikes = <<>>)
    /\ compute_spikes(<<>>, sp_threshold) = <<>>

\* main looks for spikes in a series of one sample or more only: a log
\* without a decision line has ended the run with status 1
ExitOnlyWithoutMoves ==
    /\ sp_pc = "exit 1" => (sp_evals = <<>> /\ sp_spikes = <<>> /\ sp_kept = <<>>)
    /\ sp_pc \in {"spikes", "kept"} => sp_evals # <<>>

\* the series 50, 120, -280, -300 with threshold 300 spikes at index 3 only
C1_Witness ==
    /\ sp_pc = "spikes"
    /\ sp_evals = <<50, 120, -280, -300>>
    /\ sp_threshold = 300
    /\ sp_spikes = <<<<3, -400>>>>

(***************************************************************************)
(* Text: a string is a sequence of one-character strings                   *)
(***************************************************************************)
WordChars ==
    {"a","b","c","d","e","f","g","h","i","j","k","l","m","n","o","p","q",
     "r","s","t","u","v","w","x","y","z",
     "A","B","C","D","E","F","G","H","I","J","K","L","M","N","O","P","Q",
     "R","S","T","U","V","W","X","Y","Z",
     "0","1","2","3","4","5","6","7","8","9","_"}
\* A character is a one-character string. A character that cannot be written
\* so in a module (one outside ASCII, a control character) is written by the
\* name of its code point: "U+" and its hexadecimal digits, as "U+3042".
HexDigitVal(h) ==
    CASE h = "0" -> 0 [] h = "1" -> 1 [] h = "2" -> 2 [] h = "3" -> 3
      [] h = "4" -> 4 [] h = "5" -> 5 [] h = "6" -> 6 [] h = "7" -> 7
      [] h = "8" -> 8 [] h = "9" -> 9
      [] h \in {"A", "a"} -> 10 [] h \in {"B", "b"} -> 11
      [] h \in {"C", "c"} -> 12 [] h \in {"D", "d"} -> 13
      [] h \in {"E", "e"} -> 14 [] h \in {"F", "f"} -> 15
\* the code point of a character written by name
CodePoint(c) ==
    LET RECURSIVE loop(_, _)
        loop(i, acc) ==
            IF i > Len(c) THEN acc
            ELSE loop(i + 1, acc * 16 + HexDigitVal(SubSeq(c, i, i)))
    IN loop(3, 0)
InRanges(n, ranges) == \E r \in ranges : r[1] <= n /\ n <= r[2]

\* The classes \w and \d of a str pattern and str.isspace are those of
\* Unicode (version 14.0 in Python 3.11), given here by their ranges of code
\* points.
\* \w: the characters of which str.isalnum holds, and '_'
WordRanges ==
    {<<48, 57>>, <<65, 90>>, <<95, 95>>, <<97, 122>>, <<170, 170>>, <<178, 179>>,
     <<181, 181>>, <<185, 186>>, <<188, 190>>, <<192, 214>>, <<216, 246>>, <<248, 705>>,
     <<710, 721>>, <<736, 740>>, <<748, 748>>, <<750, 750>>, <<880, 884>>, <<886, 887>>,
     <<890, 893>>, <<895, 895>>, <<902, 902>>, <<904, 906>>, <<908, 908>>, <<910, 929>>,
     <<931, 1013>>, <<1015, 1153>>, <<1162, 1327>>, <<1329, 1366>>, <<1369, 1369>>, <<1376, 1416>>,
     <<1488, 1514>>, <<1519, 1522>>, <<1568, 1610>>, <<1632, 1641>>, <<1646, 1647>>, <<1649, 1747>>,
     <<1749, 1749>>, <<1765, 1766>>, <<1774, 1788>>, <<1791, 1791>>, <<1808, 1808>>, <<1810, 1839>>,
     <<1869, 1957>>, <<1969, 1969>>, <<1984, 2026>>, <<2036, 2037>>, <<2042, 2042>>, <<2048, 2069>>,
     <<2074, 2074>>, <<2084, 2084>>, <<2088, 2088>>, <<2112, 2136>>, <<2144, 2154>>, <<2160, 2183>>,
     <<2185, 2190>>, <<2208, 2249>>, <<2308, 2361>>, <<2365, 2365>>, <<2384, 2384>>, <<2392, 2401>>,
     <<2406, 2415>>, <<2417, 2432>>, <<2437, 2444>>, <<2447, 2448>>, <<2451, 2472>>, <<2474, 2480>>,
     <<2482, 2482>>, <<2486, 2489>>, <<2493, 2493>>, <<2510, 2510>>, <<2524, 2525>>, <<2527, 2529>>,
     <<2534, 2545>>, <<2548, 2553>>, <<2556, 2556>>, <<2565, 2570>>, <<2575, 2576>>, <<2579, 2600>>,
     <<2602, 2608>>, <<2610, 2611>>, <<2613, 2614>>, <<2616, 2617>>, <<2649, 2652>>, <<2654, 2654>>,
     <<2662, 2671>>, <<2674, 2676>>, <<2693, 2701>>, <<2703, 2705>>, <<2707, 2728>>, <<2730, 2736>>,
     <<2738, 2739>>, <<2741, 2745>>, <<2749, 2749>>, <<2768, 2768>>, <<2784, 2785>>, <<2790, 2799>>,
     <<2809, 2809>>, <<2821, 2828>>, <<2831, 2832>>, <<2835, 2856>>, <<2858, 2864>>, <<2866, 2867>>,
     <<2869, 2873>>, <<2877, 2877>>, <<2908, 2909>>, <<2911, 2913>>, <<2918, 2927>>, <<2929, 2935>>,
     <<2947, 2947>>, <<2949, 2954>>, <<2958, 2960>>, <<2962, 2965>>, <<2969, 2970>>, <<2972, 2972>>,
     <<2974, 2975>>, <<2979, 2980>>, <<2984, 2986>>, <<2990, 3001>>, <<3024, 3024>>, <<3046, 3058>>,
     <<3077, 3084>>, <<3086, 3088>>, <<3090, 3112>>, <<3114, 3129>>, <<3133, 3133>>, <<3160, 3162>>,
     <<3165, 3165>>, <<3168, 3169>>, <<3174, 3183>>, <<3192, 3198>>, <<3200, 3200>>, <<3205, 3212>>,
     <<3214, 3216>>, <<3218, 3240>>, <<3242, 3251>>, <<3253, 3257>>, <<3261, 3261>>, <<3293, 3294>>,
     <<3296, 3297>>, <<3302, 3311>>, <<3313, 3314>>, <<3332, 3340>>, <<3342, 3344>>, <<3346, 3386>>,
     <<3389, 3389>>, <<3406, 3406>>, <<3412, 3414>>, <<3416, 3425>>, <<3430, 3448>>, <<3450, 3455>>,
     <<3461, 3478>>, <<3482, 3505>>, <<3507, 3515>>, <<3517, 3517>>, <<3520, 3526>>, <<3558, 3567>>,
     <<3585, 3632>>, <<3634, 3635>>, <<3648, 3654>>, <<3664, 3673>>, <<3713, 3714>>, <<3716, 3716>>,
     <<3718, 3722>>, <<3724, 3747>>, <<3749, 3749>>, <<3751, 3760>>, <<3762, 3763>>, <<3773, 3773>>,
     <<3776, 3780>>, <<3782, 3782>>, <<3792, 3801>>, <<3804, 3807>>, <<3840, 3840>>, <<3872, 3891>>,
     <<3904, 3911>>, <<3913, 3948>>, <<3976, 3980>>, <<4096, 4138>>, <<4159, 4169>>, <<4176, 4181>>,
     <<4186, 4189>>, <<4193, 4193>>, <<4197, 4198>>, <<4206, 4208>>, <<4213, 4225>>, <<4238, 4238>>,
     <<4240, 4249>>, <<4256, 4293>>, <<4295, 4295>>, <<4301, 4301>>, <<4304, 4346>>, <<4348, 4680>>,
     <<4682, 4685>>, <<4688, 4694>>, <<4696, 4696>>, <<4698, 4701>>, <<4704, 4744>>, <<4746, 4749>>,
     <<4752, 4784>>, <<4786, 4789>>, <<4792, 4798>>, <<4800, 4800>>, <<4802, 4805>>, <<4808, 4822>>,
     <<4824, 4880>>, <<4882, 4885>>, <<4888, 4954>>, <<4969, 4988>>, <<4992, 5007>>, <<5024, 5109>>,
     <<5112, 5117>>, <<5121, 5740>>, <<5743, 5759>>, <<5761, 5786>>, <<5792, 5866>>, <<5870, 5880>>,
     <<5888, 5905>>, <<5919, 5937>>, <<5952, 5969>>, <<5984, 5996>>, <<5998, 6000>>, <<6016, 6067>>,
     <<6103, 6103>>, <<6108, 6108>>, <<6112, 6121>>, <<6128, 6137>>, <<6160, 6169>>, <<6176, 6264>>,
     <<6272, 6276>>, <<6279, 6312>>, <<6314, 6314>>, <<6320, 6389>>, <<6400, 6430>>, <<6470, 6509>>,
     <<6512, 6516>>, <<6528, 6571>>, <<6576, 6601>>, <<6608, 6618>>, <<6656, 6678>>, <<6688, 6740>>,
     <<6784, 6793>>, <<6800, 6809>>, <<6823, 6823>>, <<6917, 6963>>, <<6981, 6988>>, <<6992, 7001>>,
     <<7043, 7072>>, <<7086, 7141>>, <<7168, 7203>>, <<7232, 7241>>, <<7245, 7293>>, <<7296, 7304>>,
     <<7312, 7354>>, <<7357, 7359>>, <<7401, 7404>>, <<7406, 7411>>, <<7413, 7414>>, <<7418, 7418>>,
     <<7424, 7615>>, <<7680, 7957>>, <<7960, 7965>>, <<7968, 8005>>, <<8008, 8013>>, <<8016, 8023>>,
     <<8025, 8025>>, <<8027, 8027>>, <<8029, 8029>>, <<8031, 8061>>, <<8064, 8116>>, <<8118, 8124>>,
     <<8126, 8126>>, <<8130, 8132>>, <<8134, 8140>>, <<8144, 8147>>, <<8150, 8155>>, <<8160, 8172>>,
     <<8178, 8180>>, <<8182, 8188>>, <<8304, 8305>>, <<8308, 8313>>, <<8319, 8329>>, <<8336, 8348>>,
     <<8450, 8450>>, <<8455, 8455>>, <<8458, 8467>>, <<8469, 8469>>, <<8473, 8477>>, <<8484, 8484>>,
     <<8486, 8486>>, <<8488, 8488>>, <<8490, 8493>>, <<8495, 8505>>, <<8508, 8511>>, <<8517, 8521>>,
     <<8526, 8526>>, <<8528, 8585>>, <<9312, 9371>>, <<9450, 9471>>, <<10102, 10131>>, <<11264, 11492>>,
     <<11499, 11502>>, <<11506, 11507>>, <<11517, 11517>>, <<11520, 11557>>, <<11559, 11559>>, <<11565, 11565>>,
     <<11568, 11623>>, <<11631, 11631>>, <<11648, 11670>>, <<11680, 11686>>, <<11688, 11694>>, <<11696, 11702>>,
     <<11704, 11710>>, <<11712, 11718>>, <<11720, 11726>>, <<11728, 11734>>, <<11736, 11742>>, <<11823, 11823>>,
     <<12293, 12295>>, <<12321, 12329>>, <<12337, 12341>>, <<12344, 12348>>, <<12353, 12438>>, <<12445, 12447>>,
     <<12449, 12538>>, <<12540, 12543>>, <<12549, 12591>>, <<12593, 12686>>, <<12690, 12693>>, <<12704, 12735>>,
     <<12784, 12799>>, <<12832, 12841>>, <<12872, 12879>>, <<12881, 12895>>, <<12928, 12937>>, <<12977, 12991>>,
     <<13312, 19903>>, <<19968, 42124>>, <<42192, 42237>>, <<42240, 42508>>, <<42512, 42539>>, <<42560, 42606>>,
     <<42623, 42653>>, <<42656, 42735>>, <<42775, 42783>>, <<42786, 42888>>, <<42891, 42954>>, <<42960, 42961>>,
     <<42963, 42963>>, <<42965, 42969>>, <<42994, 43009>>, <<43011, 43013>>, <<43015, 43018>>, <<43020, 43042>>,
     <<43056, 43061>>, <<43072, 43123>>, <<43138, 43187>>, <<43216, 43225>>, <<43250, 43255>>, <<43259, 43259>>,
     <<43261, 43262>>, <<43264, 43301>>, <<43312, 43334>>, <<43360, 43388>>, <<43396, 43442>>, <<43471, 43481>>,
     <<43488, 43492>>, <<43494, 43518>>, <<43520, 43560>>, <<43584, 43586>>, <<43588, 43595>>, <<43600, 43609>>,
     <<43616, 43638>>, <<43642, 43642>>, <<43646, 43695>>, <<43697, 43697>>, <<43701, 43702>>, <<43705, 43709>>,
     <<43712, 43712>>, <<43714, 43714>>, <<43739, 43741>>, <<43744, 43754>>, <<43762, 43764>>, <<43777, 43782>>,
     <<43785, 43790>>, <<43793, 43798>>, <<43808, 43814>>, <<43816, 43822>>, <<43824, 43866>>, <<43868, 43881>>,
     <<43888, 44002>>, <<44016, 44025>>, <<44032, 55203>>, <<55216, 55238>>, <<55243, 55291>>, <<63744, 64109>>,
     <<64112, 64217>>, <<64256, 64262>>, <<64275, 64279>>, <<64285, 64285>>, <<64287, 64296>>, <<64298, 64310>>,
     <<64312, 64316>>, <<64318, 64318>>, <<64320, 64321>>, <<64323, 64324>>, <<64326, 64433>>, <<64467, 64829>>,
     <<64848, 64911>>, <<64914, 64967>>, <<65008, 65019>>, <<65136, 65140>>, <<65142, 65276>>, <<65296, 65305>>,
     <<65313, 65338>>, <<65345, 65370>>, <<65382, 65470>>, <<65474, 65479>>, <<65482, 65487>>, <<65490, 65495>>,
     <<65498, 65500>>, <<65536, 65547>>, <<65549, 65574>>, <<65576, 65594>>, <<65596, 65597>>, <<65599, 65613>>,
     <<65616, 65629>>, <<65664, 65786>>, <<65799, 65843>>, <<65856, 65912>>, <<65930, 65931>>, <<66176, 66204>>,
     <<66208, 66256>>, <<66273, 66299>>, <<66304, 66339>>, <<66349, 66378>>, <<66384, 66421>>, <<66432, 66461>>,
     <<66464, 66499>>, <<66504, 66511>>, <<66513, 66517>>, <<66560, 66717>>, <<66720, 66729>>, <<66736, 66771>>,
     <<66776, 66811>>, <<66816, 66855>>, <<66864, 66915>>, <<66928, 66938>>, <<66940, 66954>>, <<66956, 66962>>,
     <<66964, 66965>>, <<66967, 66977>>, <<66979, 66993>>, <<66995, 67001>>, <<67003, 67004>>, <<67072, 67382>>,
     <<67392, 67413>>, <<67424, 67431>>, <<67456, 67461>>, <<67463, 67504>>, <<67506, 67514>>, <<67584, 67589>>,
     <<67592, 67592>>, <<67594, 67637>>, <<67639, 67640>>, <<67644, 67644>>, <<67647, 67669>>, <<67672, 67702>>,
     <<67705, 67742>>, <<67751, 67759>>, <<67808, 67826>>, <<67828, 67829>>, <<67835, 67867>>, <<67872, 67897>>,
     <<67968, 68023>>, <<68028, 68047>>, <<68050, 68096>>, <<68112, 68115>>, <<68117, 68119>>, <<68121, 68149>>,
     <<68160, 68168>>, <<68192, 68222>>, <<68224, 68255>>, <<68288, 68295>>, <<68297, 68324>>, <<68331, 68335>>,
     <<68352, 68405>>, <<68416, 68437>>, <<68440, 68466>>, <<68472, 68497>>, <<68521, 68527>>, <<68608, 68680>>,
     <<68736, 68786>>, <<68800, 68850>>, <<68858, 68899>>, <<68912, 68921>>, <<69216, 69246>>, <<69248, 69289>>,
     <<69296, 69297>>, <<69376, 69415>>, <<69424, 69445>>, <<69457, 69460>>, <<69488, 69505>>, <<69552, 69579>>,
     <<69600, 69622>>, <<69635, 69687>>, <<69714, 69743>>, <<69745, 69746>>, <<69749, 69749>>, <<69763, 69807>>,
     <<69840, 69864>>, <<69872, 69881>>, <<69891, 69926>>, <<69942, 69951>>, <<69956, 69956>>, <<69959, 69959>>,
     <<69968, 70002>>, <<70006, 70006>>, <<70019, 70066>>, <<70081, 70084>>, <<70096, 70106>>, <<70108, 70108>>,
     <<70113, 70132>>, <<70144, 70161>>, <<70163, 70187>>, <<70272, 70278>>, <<70280, 70280>>, <<70282, 70285>>,
     <<70287, 70301>>, <<70303, 70312>>, <<70320, 70366>>, <<70384, 70393>>, <<70405, 70412>>, <<70415, 70416>>,
     <<70419, 70440>>, <<70442, 70448>>, <<70450, 70451>>, <<70453, 70457>>, <<70461, 70461>>, <<70480, 70480>>,
     <<70493, 70497>>, <<70656, 70708>>, <<70727, 70730>>, <<70736, 70745>>, <<70751, 70753>>, <<70784, 70831>>,
     <<70852, 70853>>, <<70855, 70855>>, <<70864, 70873>>, <<71040, 71086>>, <<71128, 71131>>, <<71168, 71215>>,
     <<71236, 71236>>, <<71248, 71257>>, <<71296, 71338>>, <<71352, 71352>>, <<71360, 71369>>, <<71424, 71450>>,
     <<71472, 71483>>, <<71488, 71494>>, <<71680, 71723>>, <<71840, 71922>>, <<71935, 71942>>, <<71945, 71945>>,
     <<71948, 71955>>, <<71957, 71958>>, <<71960, 71983>>, <<71999, 71999>>, <<72001, 72001>>, <<72016, 72025>>,
     <<72096, 72103>>, <<72106, 72144>>, <<72161, 72161>>, <<72163, 72163>>, <<72192, 72192>>, <<72203, 72242>>,
     <<72250, 72250>>, <<72272, 72272>>, <<72284, 72329>>, <<72349, 72349>>, <<72368, 72440>>, <<72704, 72712>>,
     <<72714, 72750>>, <<72768, 72768>>, <<72784, 72812>>, <<72818, 72847>>, <<72960, 72966>>, <<72968, 72969>>,
     <<72971, 73008>>, <<73030, 73030>>, <<73040, 73049>>, <<73056, 73061>>, <<73063, 73064>>, <<73066, 73097>>,
     <<73112, 73112>>, <<73120, 73129>>, <<73440, 73458>>, <<73648, 73648>>, <<73664, 73684>>, <<73728, 74649>>,
     <<74752, 74862>>, <<74880, 75075>>, <<77712, 77808>>, <<77824, 78894>>, <<82944, 83526>>, <<92160, 92728>>,
     <<92736, 92766>>, <<92768, 92777>>, <<92784, 92862>>, <<92864, 92873>>, <<92880, 92909>>, <<92928, 92975>>,
     <<92992, 92995>>, <<93008, 93017>>, <<93019, 93025>>, <<93027, 93047>>, <<93053, 93071>>, <<93760, 93846>>,
     <<93952, 94026>>, <<94032, 94032>>, <<94099, 94111>>, <<94176, 94177>>, <<94179, 94179>>, <<94208, 100343>>,
     <<100352, 101589>>, <<101632, 101640>>, <<110576, 110579>>, <<110581, 110587>>, <<110589, 110590>>, <<110592, 110882>>,
     <<110928, 110930>>, <<110948, 110951>>, <<110960, 111355>>, <<113664, 113770>>, <<113776, 113788>>, <<113792, 113800>>,
     <<113808, 113817>>, <<119520, 119539>>, <<119648, 119672>>, <<119808, 119892>>, <<119894, 119964>>, <<119966, 119967>>,
     <<119970, 119970>>, <<119973, 119974>>, <<119977, 119980>>, <<119982, 119993>>, <<119995, 119995>>, <<119997, 120003>>,
     <<120005, 120069>>, <<120071, 120074>>, <<120077, 120084>>, <<120086, 120092>>, <<120094, 120121>>, <<120123, 120126>>,
     <<120128, 120132>>, <<120134, 120134>>, <<120138, 120144>>, <<120146, 120485>>, <<120488, 120512>>, <<120514, 120538>>,
     <<120540, 120570>>, <<120572, 120596>>, <<120598, 120628>>, <<120630, 120654>>, <<120656, 120686>>, <<120688, 120712>>,
     <<120714, 120744>>, <<120746, 120770>>, <<120772, 120779>>, <<120782, 120831>>, <<122624, 122654>>, <<123136, 123180>>,
     <<123191, 123197>>, <<123200, 123209>>, <<123214, 123214>>, <<123536, 123565>>, <<123584, 123627>>, <<123632, 123641>>,
     <<124896, 124902>>, <<124904, 124907>>, <<124909, 124910>>, <<124912, 124926>>, <<124928, 125124>>, <<125127, 125135>>,
     <<125184, 125251>>, <<125259, 125259>>, <<125264, 125273>>, <<126065, 126123>>, <<126125, 126127>>, <<126129, 126132>>,
     <<126209, 126253>>, <<126255, 126269>>, <<126464, 126467>>, <<126469, 126495>>, <<126497, 126498>>, <<126500, 126500>>,
     <<126503, 126503>>, <<126505, 126514>>, <<126516, 126519>>, <<126521, 126521>>, <<126523, 126523>>, <<126530, 126530>>,
     <<126535, 126535>>, <<126537, 126537>>, <<126539, 126539>>, <<126541, 126543>>, <<126545, 126546>>, <<126548, 126548>>,
     <<126551, 126551>>, <<126553, 126553>>, <<126555, 126555>>, <<126557, 126557>>, <<126559, 126559>>, <<126561, 126562>>,
     <<126564, 126564>>, <<126567, 126570>>, <<126572, 126578>>, <<126580, 126583>>, <<126585, 126588>>, <<126590, 126590>>,
     <<126592, 126601>>, <<126603, 126619>>, <<126625, 126627>>, <<126629, 126633>>, <<126635, 126651>>, <<127232, 127244>>,
     <<130032, 130041>>, <<131072, 173791>>, <<173824, 177976>>, <<177984, 178205>>, <<178208, 183969>>, <<183984, 191456>>,
     <<194560, 195101>>, <<196608, 201546>>}
\* \d: the decimal digits (category Nd); each range starts at a digit zero
\* and holds whole runs of the digits zero to nine
DigitRanges ==
    {<<48, 57>>, <<1632, 1641>>, <<1776, 1785>>, <<1984, 1993>>, <<2406, 2415>>, <<2534, 2543>>,
     <<2662, 2671>>, <<2790, 2799>>, <<2918, 2927>>, <<3046, 3055>>, <<3174, 3183>>, <<3302, 3311>>,
     <<3430, 3439>>, <<3558, 3567>>, <<3664, 3673>>, <<3792, 3801>>, <<3872, 3881>>, <<4160, 4169>>,
     <<4240, 4249>>, <<6112, 6121>>, <<6160, 6169>>, <<6470, 6479>>, <<6608, 6617>>, <<6784, 6793>>,
     <<6800, 6809>>, <<6992, 7001>>, <<7088, 7097>>, <<7232, 7241>>, <<7248, 7257>>, <<42528, 42537>>,
     <<43216, 43225>>, <<43264, 43273>>, <<43472, 43481>>, <<43504, 43513>>, <<43600, 43609>>, <<44016, 44025>>,
     <<65296, 65305>>, <<66720, 66729>>, <<68912, 68921>>, <<69734, 69743>>, <<69872, 69881>>, <<69942, 69951>>,
     <<70096, 70105>>, <<70384, 70393>>, <<70736, 70745>>, <<70864, 70873>>, <<71248, 71257>>, <<71360, 71369>>,
     <<71472, 71481>>, <<71904, 71913>>, <<72016, 72025>>, <<72784, 72793>>, <<73040, 73049>>, <<73120, 73129>>,
     <<92768, 92777>>, <<92864, 92873>>, <<93008, 93017>>, <<120782, 120831>>, <<123200, 123209>>, <<123632, 123641>>,
     <<125264, 125273>>, <<130032, 130041>>}
\* str.isspace, and with it the separators of str.split() and what
\* str.strip() removes
SpaceRanges ==
    {<<9, 13>>, <<28, 32>>, <<133, 133>>, <<160, 160>>, <<5760, 5760>>, <<8192, 8202>>,
     <<8232, 8233>>, <<8239, 8239>>, <<8287, 8287>>, <<12288, 12288>>}

\* \w of Python's re
IsWord(c) ==
    IF Len(c) = 1 THEN c \in WordChars
    ELSE InRanges(CodePoint(c), WordRanges)
\* str.isspace
IsSpace(c) ==
    IF Len(c) = 1 THEN c \in {" ", "\t", "\n", "\r", "\f"}
    ELSE InRanges(CodePoint(c), SpaceRanges)

MinOf(S) == CHOOSE x \in S : \A y \in S : x <= y

\* pat occurs in s at index i
MatchAt(s, pat, i) ==
    /\ i >= 1
    /\ i + Len(pat) - 1 <= Len(s)
    /\ \A j \in 1..Len(pat) : s[i + j - 1] = pat[j]

\* str.find, 1-based; 0 when absent
Find(s, pat) ==
    LET I == {i \in 1..(Len(s) - Len(pat) + 1) : MatchAt(s, pat, i)}
    IN IF I = {} THEN 0 ELSE MinOf(I)

\* `pat in s`
Contains(s, pat) == Find(s, pat) # 0

\* s.split(pat, 1) when pat occurs in s: the parts before and after the
\* first occurrence
SplitOnce(s, pat) ==
    LET i == Find(s, pat)
    IN <<SubSeq(s, 1, i - 1), SubSeq(s, i + Len(pat), Len(s))>>

\* str.strip()
Strip(s) ==
    LET I == {i \in 1..Len(s) : ~IsSpace(s[i])}
    IN IF I = {} THEN <<>>
       ELSE SubSeq(s, MinOf(I), CHOOSE x \in I : \A y \in I : y <= x)

\* str.split() without a separator: the maximal runs of non-space characters
SplitWs(s) ==
    LET RECURSIVE loop(_, _, _)
        loop(i, cur, acc) ==
            IF i > Len(s)
            THEN IF cur = <<>> THEN acc ELSE Append(acc, cur)
            ELSE IF IsSpace(s[i])
            THEN loop(i + 1, <<>>, IF cur = <<>> THEN acc ELSE Append(acc, cur))
            ELSE loop(i + 1, Append(cur, s[i]), acc)
    IN loop(1, <<>>, <<>>)

\* sep.join(toks)
Join(toks, sep) ==
    LET RECURSIVE loop(_, _)
        loop(i, acc) ==
            IF i > Len(toks) THEN acc
            ELSE loop(i + 1, IF i = 1 THEN toks[i] ELSE acc \o sep \o toks[i])
    IN loop(1, <<>>)

STR_MOVES == <<" ", "m", "o", "v", "e", "s", " ">>

(***************************************************************************)
(* chop_moves                                                              *)
(***************************************************************************)
\* POS_MOVES_SPLIT_RE = r"\b moves \b": " moves " with a word character
\* right before it and right after it (a blank is not a word character, so
\* each \b needs a word character on its other side).
PosMovesReMatchAt(s, i) ==
    /\ MatchAt(s, STR_MOVES, i)
    /\ i > 1 /\ IsWord(s[i - 1])
    /\ i + Len(STR_MOVES) <= Len(s) /\ IsWord(s[i + Len(STR_MOVES)])

\* POS_MOVES_SPLIT_RE.split(pos_line, maxsplit=1)[0]: the text before the
\* leftmost match, the whole text when nothing matches
PosMovesReSplitHead(s) ==
    LET I == {i \in 1..Len(s) : PosMovesReMatchAt(s, i)}
    IN IF I = {} THEN s ELSE SubSeq(s, 1, MinOf(I) - 1)

\* toks[:-back_plies] when enough tokens are left, [] otherwise
ChopToks(toks, back_plies) ==
    IF Len(toks) >= back_plies
    THEN SubSeq(toks, 1, Len(toks) - back_plies)
    ELSE <<>>

\* make_targets_from_logs.chop_moves; pos_line is an optional string
chop_moves_from_logs(pos_line, back_plies) ==
    IF IsNone(pos_line) \/ Val(pos_line) = <<>> THEN None
    ELSE LET s == Val(pos_line) IN
         IF ~Contains(s, STR_MOVES) \/ back_plies <= 0 THEN Some(s)
         ELSE LET head == PosMovesReSplitHead(s)
                  moves == SplitOnce(s, STR_MOVES)[2]
                  toks == ChopToks(SplitWs(Strip(moves)), back_plies)
              IN Some(IF toks # <<>>
                      THEN head \o STR_MOVES \o Join(toks, <<" ">>)
                      ELSE head)

\* make_targets_from_moves.chop_moves
chop_moves_from_moves(pos_line, back_plies) ==
    IF IsNone(pos_line) \/ Val(pos_line) = <<>> THEN None
    ELSE LET s == Val(pos_line) IN
         IF ~Contains(s, STR_MOVES) \/ back_plies <= 0 THEN Some(s)
         ELSE LET parts == SplitOnce(s, STR_MOVES)
                  head == parts[1]
                  toks == ChopToks(SplitWs(Strip(parts[2])), back_plies)
              IN Some(IF toks # <<>>
                      THEN head \o STR_MOVES \o Join(toks, <<" ">>)
                      ELSE head)

\* Inputs: the heads are the start position token, a board encoding with
\* its move counter, and one without it
HEAD_STARTPOS == <<"s", "t", "a", "r", "t", "p", "o", "s">>
HEAD_SFEN == <<"s", "f", "e", "n", " ", "9", " ", "b", " ", "-", " ", "1">>
HEAD_SFEN_NOCOUNT == <<"s", "f", "e", "n", " ", "9", " ", "b", " ", "-">>
Heads == {HEAD_STARTPOS, HEAD_SFEN, HEAD_SFEN_NOCOUNT}
MoveTokens ==
    {<<"7", "g", "7", "f">>, <<"3", "c", "3", "d">>,
     <<"8", "h", "2", "b">>, <<"3", "a", "2", "b">>}

\* head, or head + " moves " + the tokens
MakePos(head, toks) ==
    IF toks = <<>> THEN head ELSE head \o STR_MOVES \o Join(toks, <<" ">>)

chIdle ==
    /\ ch_pc = "off" /\ ch_pos = None /\ ch_back = 0
    /\ ch_logs = None /\ ch_moves = None
    /\ ch_head = <<>> /\ ch_toks = <<>>

InitChop ==
    /\ ch_pc = "start"
    /\ ch_head \in Heads
    /\ ch_toks \in SeqsUpTo(MoveTokens, MaxMoves)
    /\ ch_pos = Some(MakePos(ch_head, ch_toks))
    /\ ch_back \in -1..MaxBack
    /\ ch_logs = None /\ ch_moves = None

\* pos = chop_moves(pos_after, k), in each of the two generators
ChopMoves ==
    /\ ch_pc = "start"
    /\ ch_logs' = chop_moves_from_logs(ch_pos, ch_back)
    /\ ch_moves' = chop_moves_from_moves(ch_pos, ch_back)
    /\ ch_pc' = "done"
    /\ UNCHANGED <<ch_pos, ch_back, ch_head, ch_toks>>
    /\ UNCHANGED notCh

NextChop == ChopMoves

\* what rewinding head + tokens by k plies is to give
Rewound(head, toks, k) ==
    IF Len(toks) >= 1 /\ k >= 1
    THEN IF k < Len(toks)
         THEN head \o STR_MOVES \o Join(SubSeq(toks, 1, Len(toks) - k), <<" ">>)
         ELSE head
    ELSE MakePos(head, toks)

\* C2: for a head followed by " moves " and N >= 1 move tokens and k >= 1,
\* chop_moves of both generators returns the head followed by the first N-k
\* tokens when k < N and the bare head when k >= N; for k <= 0 or without a
\* " moves " part the position is returned unchanged.
C2_ChopBothGenerators ==
    ch_pc = "done" =>
        /\ ch_logs = Some(Rewound(ch_head, ch_toks, ch_back))
        /\ ch_moves = Some(Rewound(ch_head, ch_toks, ch_back))

\* The same statement for make_targets_from_moves alone, and for
\* make_targets_from_logs on the positions whose head ends in a word
\* character (the start position token, a board encoding with its counter).
ChopFromMovesRewinds ==
    ch_pc = "done" => ch_moves = Some(Rewound(ch_head, ch_toks, ch_back))
ChopFromLogsRewindsWordHead ==
    (ch_pc = "done" /\ IsWord(ch_head[Len(ch_head)])) =>
        ch_logs = Some(Rewound(ch_head, ch_toks, ch_back))

(***************************************************************************)
(* Target generation: main of make_targets_from_logs.py and of             *)
(* make_targets_from_moves.py                                              *)
(***************************************************************************)
\* sorted(spikes, key=lambda x: abs(x[1]))[::-1]: the order of a sort by
\* increasing |delta| turned round, which puts the later of two spikes of
\* equal |delta| first
SortByAbsDeltaDesc_reversed(spikes) ==
    LET RECURSIVE insert(_, _)
        insert(sorted, x) ==
            IF sorted = <<>> THEN <<x>>
            ELSE IF Abs(sorted[Len(sorted)][2]) > Abs(x[2])
            THEN Append(sorted, x)
            ELSE Append(insert(SubSeq(sorted, 1, Len(sorted) - 1), x),
                        sorted[Len(sorted)])
        RECURSIVE loop(_, _)
        loop(i, acc) ==
            IF i > Len(spikes) THEN acc ELSE loop(i + 1, insert(acc, spikes[i]))
    IN loop(1, <<>>)

\* sorted(spikes, key=lambda x: abs(x[1]), reverse=True): a stable sort, so
\* spikes of equal |delta| keep their order
SortByAbsDeltaDesc(spikes) ==
    LET RECURSIVE insert(_, _)
        insert(sorted, x) ==
            IF sorted = <<>> THEN <<x>>
            ELSE IF Abs(sorted[Len(sorted)][2]) >= Abs(x[2])
            THEN Append(sorted, x)
            ELSE Append(insert(SubSeq(sorted, 1, Len(sorted) - 1), x),
                        sorted[Len(sorted)])
        RECURSIVE loop(_, _)
        loop(i, acc) ==
            IF i > Len(spikes) THEN acc ELSE loop(i + 1, insert(acc, spikes[i]))
    IN loop(1, <<>>)

\* if args.topk and len(spikes) > args.topk: spikes = sorted(...)[:args.topk]
TopK(spikes, topk) ==
    IF topk # 0 /\ Len(spikes) > topk
    THEN SubSeq(SortByAbsDeltaDesc(spikes), 1,
                IF topk > 0 THEN topk ELSE Max2(Len(spikes) + topk, 0))
    ELSE spikes

\* extract_eval_spikes.main, lines 106-108: the spikes are cut down to the
\* top K
KeepTopK ==
    /\ sp_pc = "spikes"
    /\ sp_kept' = TopK(sp_spikes, sp_topk)
    /\ sp_pc' = "kept"
    /\ UNCHANGED <<sp_evals, sp_threshold, sp_spikes, sp_topk>>
    /\ UNCHANGED notSp

NextSpikes == NoMoves \/ ComputeSpikes \/ KeepTopK

\* C17: when K > 0 and more than K spikes are found, exactly the K spikes of
\* greatest |delta| are kept, the earlier ply taking precedence among spikes
\* of equal |delta|; when K = 0 or at most K spikes are found, all are kept.
C17_TopKByMagnitude ==
    sp_pc = "kept" =>
        LET Found == {sp_spikes[i] : i \in 1..Len(sp_spikes)}
            Kept == {sp_kept[i] : i \in 1..Len(sp_kept)}
        IN IF sp_topk > 0 /\ Len(sp_spikes) > sp_topk
           THEN /\ Len(sp_kept) = sp_topk /\ Cardinality(Kept) = sp_topk
                /\ Kept \subseteq Found
                /\ \A x \in Kept : \A y \in Found \ Kept :
                      \/ Abs(x[2]) > Abs(y[2])
                      \/ Abs(x[2]) = Abs(y[2]) /\ x[1] < y[1]
           ELSE sp_kept = sp_spikes

\* of three spikes two have the greatest |delta|, K is 1, and the earlier of
\* the two is the one kept
C17_Witness ==
    /\ sp_pc = "kept" /\ sp_topk = 1 /\ Len(sp_spikes) = 3
    /\ \E i, j \in 1..3 :
          /\ i < j /\ Abs(sp_spikes[i][2]) = Abs(sp_spikes[j][2])
          /\ \A h \in 1..3 : Abs(sp_spikes[h][2]) <= Abs(sp_spikes[i][2])
          /\ sp_kept = <<sp_spikes[i]>>
\* K is 0 and the three spikes found are all kept
AllKeptReached ==
    /\ sp_pc = "kept" /\ sp_topk = 0 /\ Len(sp_spikes) = 3 /\ sp_kept = sp_spikes

\* os.path.basename: the text after the last "/"
basename(path) ==
    LET I == {i \in 1..Len(path) : path[i] = "/"}
    IN IF I = {} THEN path
       ELSE SubSeq(path, (CHOOSE x \in I : \A y \in I : y <= x) + 1, Len(path))

\* os.path.splitext(base)[0]: the text before the last "." that follows a
\* character other than "."
splitext_stem(base) ==
    LET I == {i \in 2..Len(base) :
                base[i] = "." /\ \E j \in 1..(i - 1) : base[j] # "."}
    IN IF I = {} THEN base
       ELSE SubSeq(base, 1, (CHOOSE x \in I : \A y \in I : y <= x) - 1)

STR_RESIGN == <<"r", "e", "s", "i", "g", "n">>
STR_NONE == <<"n", "o", "n", "e">>

\* make_targets_from_moves.make_pos_after
make_pos_after(pos_body, bestmove) ==
    LET mv == Strip(bestmove) IN
    IF mv = <<>> \/ mv \in {STR_RESIGN, STR_NONE} THEN pos_body
    ELSE IF Contains(pos_body, STR_MOVES)
    THEN LET parts == SplitOnce(pos_body, STR_MOVES)
             toks == Append(SplitWs(Strip(parts[2])), mv)
         IN parts[1] \o STR_MOVES \o Join(toks, <<" ">>)
    ELSE pos_body \o STR_MOVES \o mv

\* The position a spike is rewound from.  From a log: the position line the
\* GUI sent after the decision (None when there is none).  From a move
\* record: the record's position with its move appended.
PosAfter(variant, rec) ==
    IF variant = "logs" THEN rec.pos_after
    ELSE Some(make_pos_after(rec.pos_body, rec.bestmove))

\* The rewound position, by the chop_moves of the generator
ChopBy(variant, pos_after, k) ==
    IF variant = "logs" THEN chop_moves_from_logs(pos_after, k)
    ELSE chop_moves_from_moves(pos_after, k)

\* tag = f"{stem}_ply{ply}_back{k}" or f"{stem}_g{game_index}_ply{ply_abs}_back{back}",
\* kept as the tuple of its fields
MakeTag(variant, g, ply, k) ==
    IF variant = "logs" THEN <<splitext_stem(basename(g.path)), ply, k>>
    ELSE <<splitext_stem(basename(g.path)), g.game_index, ply, k>>

\* The (spike, rewind depth) pairs of one log or game in processing order:
\* for (ply, delta) in spikes: for k in range(back_min, back_max + 1)
Candidates(variant, g, args) ==
    LET evals == [i \in 1..Len(g.recs) |-> g.recs[i].eval]
        spikes == TopK(compute_spikes(evals, args.threshold), args.topk)
        ks == args.back_max - args.back_min + 1
        n == IF ks > 0 THEN Len(spikes) * ks ELSE 0
        one(c) ==
            LET sp == spikes[((c - 1) \div ks) + 1]
                k == args.back_min + ((c - 1) % ks)
                rec == g.recs[sp[1]]
                ply == IF variant = "logs" THEN sp[1] ELSE rec.ply
            IN [tag |-> MakeTag(variant, g, ply, k),
                pre_position |-> ChopBy(variant, PosAfter(variant, rec), k),
                origin_log |-> basename(g.path),
                origin_ply |-> ply,
                origin_delta |-> sp[2],
                back_plies |-> k]
    IN [c \in 1..n |-> one(c)] \o <<>>

\* The two inner loops over one group's candidates: a candidate without a
\* position is skipped, one whose position is in uniq_positions is skipped,
\* any other is added to uniq_positions and appended to targets.
EmitAll_no_dedup(cands, uniq, tgts) ==
    LET RECURSIVE loop(_, _, _)
        loop(i, u, t) ==
            IF i > Len(cands) THEN <<u, t>>
            ELSE LET c == cands[i]
                     pos == c.pre_position
                 IN
                 IF IsNone(pos) \/ Val(pos) = <<>> THEN loop(i + 1, u, t)
                 ELSE loop(i + 1, u \cup {Val(pos)},
                           Append(t, [c EXCEPT !.pre_position = Val(pos)]))
    IN loop(1, uniq, tgts)

EmitAll(cands, uniq, tgts) ==
    LET RECURSIVE loop(_, _, _)
        loop(i, u, t) ==
            IF i > Len(cands) THEN <<u, t>>
            ELSE LET c == cands[i]
                     pos == c.pre_position
                 IN
                 IF IsNone(pos) \/ Val(pos) = <<>> THEN loop(i + 1, u, t)
                 ELSE IF Val(pos) \in u THEN loop(i + 1, u, t)
                 ELSE loop(i + 1, u \cup {Val(pos)},
                           Append(t, [c EXCEPT !.pre_position = Val(pos)]))
    IN loop(1, uniq, tgts)

\* Inputs.  A game is three decisions from the start position; two games
\* share their first two moves.
MV1 == <<"7", "g", "7", "f">>
MV2 == <<"3", "c", "3", "d">>
MV3 == <<"8", "h", "2", "b">>
MV4 == <<"2", "g", "2", "f">>
\* (moves, evaluations, whether a position line follows the last decision)
Games ==
    {<<<<MV1, MV2, MV3>>, <<0, 300, 0>>, TRUE>>,
     <<<<MV1, MV2, MV3>>, <<0, 300, -100>>, TRUE>>,
     <<<<MV1, MV2, MV4>>, <<0, 0, 300>>, TRUE>>,
     <<<<MV1, MV2, MV4>>, <<0, 300, 0>>, FALSE>>,
     <<<<MV4, MV2, MV3>>, <<0, 300, 0>>, TRUE>>}
\* in increasing order of their base names; the first two have one base name
\* and all three one stem
InputPaths ==
    << <<"x", "/", "a", ".", "m", "d">>, <<"a", ".", "m", "d">>,
       <<"a", ".", "t", "x", "t">> >>
\* the place of a path's base name in the order of line 157
PathRank(path) ==
    MinOf({i \in 1..Len(InputPaths) : basename(InputPaths[i]) = basename(path)})

\* The records of one game: decision i has evaluation evals[i]; the position
\* before it holds the first i-1 moves and the position after it the first i.
GameRecs(mvs, evals, lastPosKnown) ==
    [i \in 1..Len(mvs) |->
        [eval |-> evals[i],
         ply |-> i,
         pos_body |-> MakePos(HEAD_STARTPOS, SubSeq(mvs, 1, i - 1)),
         bestmove |-> mvs[i],
         pos_after |-> IF i = Len(mvs) /\ ~lastPosKnown THEN None
                       ELSE Some(MakePos(HEAD_STARTPOS, SubSeq(mvs, 1, i)))]]

Groups ==
    {[path |-> InputPaths[p], game_index |-> 1,
      recs |-> GameRecs(g[1], g[2], g[3])] :
        p \in 1..Len(InputPaths), g \in Games}

GenArgs ==
    {[threshold |-> 250, topk |-> a[1], back_min |-> a[2], back_max |-> a[3]] :
        a \in {<<0, 1, 2>>, <<1, 1, 2>>, <<0, 2, 3>>}}

\* by_group holds one list of records for each (base, game_index) and is
\* processed in increasing (base, game_index) order
KeysIncrease(gs) ==
    \A i \in 1..(Len(gs) - 1) :
        \/ PathRank(gs[i].path) < PathRank(gs[i + 1].path)
        \/ /\ PathRank(gs[i].path) = PathRank(gs[i + 1].path)
           /\ gs[i].game_index < gs[i + 1].game_index

tgIdle ==
    /\ tg_pc = "off" /\ tg_variant = "" /\ tg_args = <<>> /\ tg_groups = <<>>
    /\ tg_next = 0 /\ uniq_positions = {} /\ targets = <<>> /\ tg_cands = <<>>

InitTargets ==
    /\ tg_pc = "loop"
    /\ tg_variant \in {"logs", "moves"}
    /\ tg_args \in GenArgs
    /\ tg_groups \in UNION {[1..n -> Groups] : n \in 1..MaxGroups}
    /\ tg_variant = "moves" => KeysIncrease(tg_groups)
    /\ tg_next = 1
    /\ uniq_positions = {}
    /\ targets = <<>>
    /\ tg_cands = <<>>

\* One pass of the loop over the logs (or over the games of by_group)
ProcessGroup ==
    /\ tg_pc = "loop" /\ tg_next <= Len(tg_groups)
    /\ LET cands == Candidates(tg_variant, tg_groups[tg_next], tg_args)
           r == EmitAll(cands, uniq_positions, targets)
       IN /\ uniq_positions' = r[1]
          /\ targets' = r[2]
          /\ tg_cands' = tg_cands \o cands
    /\ tg_next' = tg_next + 1
    /\ UNCHANGED <<tg_pc, tg_variant, tg_args, tg_groups>>
    /\ UNCHANGED notTg

\* json.dump({"targets": targets}, wf): the batch is written
WriteTargets ==
    /\ tg_pc = "loop" /\ tg_next > Len(tg_groups)
    /\ tg_pc' = "written"
    /\ UNCHANGED <<tg_variant, tg_args, tg_groups, tg_next,
                   uniq_positions, targets, tg_cands>>
    /\ UNCHANGED notTg

NextTargets == ProcessGroup \/ WriteTargets

\* the candidates that have a position, in processing order
WithPosition(cands) ==
    SelectSeq(cands, LAMBDA c : ~IsNone(c.pre_position) /\ Val(c.pre_position) # <<>>)

\* C3: no two emitted targets have the same pre_position; of the (spike,
\* rewind depth) pairs that yield one position only the first one processed
\* is emitted, with that pair's tag and provenance.
C3_DedupFirstWins ==
    LET cs == WithPosition(tg_cands) IN
    /\ \A i, j \in 1..Len(targets) :
          targets[i].pre_position = targets[j].pre_position => i = j
    /\ \A c \in 1..Len(cs) :
          LET first == MinOf({d \in 1..c :
                                cs[d].pre_position = cs[c].pre_position})
          IN \E t \in 1..Len(targets) :
                targets[t] = [cs[first] EXCEPT !.pre_position = Val(cs[first].pre_position)]
    /\ \A t \in 1..Len(targets) :
          \E c \in 1..Len(cs) : Val(cs[c].pre_position) = targets[t].pre_position

\* C16: no two targets of one batch have the same tag, for any list of input
\* paths. Neither generator keeps this: the tag is made of the stem of the
\* base name, and two inputs of one stem ('x/a.md' and 'a.md' for the logs,
\* 'a.md' and 'a.txt' for the moves) give one tag to two targets.
C16_TagsUnique ==
    \A i, j \in 1..Len(targets) : targets[i].tag = targets[j].tag => i = j

\* What the generators do keep: the targets that come from one input have
\* tags of their own, and so have those of inputs of different stems.
TagsUniquePerInput ==
    \A i, j \in 1..Len(targets) :
        (targets[i].tag = targets[j].tag /\ i # j)
            => \E a, b \in 1..Len(tg_groups) :
                  /\ a # b
                  /\ splitext_stem(basename(tg_groups[a].path))
                        = splitext_stem(basename(tg_groups[b].path))

\* two pairs gave one position and a single target was written for it
C3_Witness ==
    /\ tg_pc = "written"
    /\ \E c, d \in 1..Len(tg_cands) :
          /\ c < d
          /\ ~IsNone(tg_cands[c].pre_position)
          /\ tg_cands[c].pre_position = tg_cands[d].pre_position
          /\ tg_cands[c].tag # tg_cands[d].tag
          /\ \E t \in 1..Len(targets) : targets[t].tag = tg_cands[c].tag
          /\ \A t \in 1..Len(targets) : targets[t].tag # tg_cands[d].tag

(***************************************************************************)
(* Metrics: main of summarize_drop_metrics.py                              *)
(***************************************************************************)
\* A quotient a/b of the script (a float there) is kept as the pair of its
\* terms; FracEq compares two quotients of positive denominators.
Frac(a, b) == [num |-> a, den |-> b]
FracEq(x, y) == x.num * y.den = y.num * x.den

\* cp <= args.bad_th
IsBad_strict(cp, bad_th) == cp < bad_th
IsBad(cp, bad_th) == cp <= bad_th

\* rows = [r for r in rows if r.get('profile')==args.profile] when a profile
\* is given ('' counts as not given)
FilterRows(summary, profile) ==
    IF ~IsNone(profile) /\ Val(profile) # ""
    THEN SelectSeq(summary, LAMBDA r : r.profile = Val(profile))
    ELSE summary

ResultRows ==
    {[profile |-> p, eval_cp |-> cp, depth |-> d] :
        p \in {"base", "gates"},
        cp \in {None, Some(-700), Some(-600), Some(-100)},
        d \in {12}}
    \cup {[profile |-> "base", eval_cp |-> None, depth |-> -1]}

mtIdle ==
    /\ mt_pc = "off" /\ mt_summary = <<>> /\ mt_profile = None /\ mt_bad_th = 0
    /\ rows = <<>> /\ mt_i = 0 /\ total = 0 /\ bad = 0 /\ cp_sum = 0
    /\ depth_sum = 0 /\ valid = 0 /\ out = None

InitMetrics ==
    /\ mt_pc = "load"
    /\ mt_summary \in SeqsUpTo(ResultRows, MaxRows)
    /\ mt_profile \in {None, Some("base")}
    /\ mt_bad_th \in {-600, -100}
    /\ rows = <<>> /\ mt_i = 0 /\ total = 0 /\ bad = 0 /\ cp_sum = 0
    /\ depth_sum = 0 /\ valid = 0 /\ out = None

\* lines 14-21: load summary.json, filter by profile, zero the counters
LoadRows ==
    /\ mt_pc = "load"
    /\ rows' = FilterRows(mt_summary, mt_profile)
    /\ total' = Len(rows')
    /\ bad' = 0 /\ cp_sum' = 0 /\ depth_sum' = 0 /\ valid' = 0
    /\ mt_i' = 1
    /\ mt_pc' = "rows"
    /\ UNCHANGED <<mt_summary, mt_profile, mt_bad_th, out>>
    /\ UNCHANGED notMt

\* lines 22-31: one pass of `for r in rows`
CountRow ==
    /\ mt_pc = "rows" /\ mt_i <= Len(rows)
    /\ LET cp == rows[mt_i].eval_cp
           d == rows[mt_i].depth
       IN /\ valid' = IF ~IsNone(cp) THEN valid + 1 ELSE valid
          /\ cp_sum' = IF ~IsNone(cp) THEN cp_sum + Val(cp) ELSE cp_sum
          /\ bad' = IF ~IsNone(cp) /\ IsBad(Val(cp), mt_bad_th)
                    THEN bad + 1 ELSE bad
          /\ depth_sum' = IF d >= 0 THEN depth_sum + d ELSE depth_sum
    /\ mt_i' = mt_i + 1
    /\ UNCHANGED <<mt_pc, mt_summary, mt_profile, mt_bad_th, rows, total, out>>
    /\ UNCHANGED notMt

\* lines 33-46: the averages, the rate and the report
Report ==
    /\ mt_pc = "rows" /\ mt_i > Len(rows)
    /\ out' = Some([profile |-> mt_profile,
                    total |-> total,
                    valid |-> valid,
                    bad_th |-> mt_bad_th,
                    bad_count |-> bad,
                    spike_rate_percent |->
                        IF valid # 0 THEN Some(Frac(bad * 100, valid)) ELSE None,
                    avg_cp |->
                        IF valid # 0 THEN Some(Frac(cp_sum, valid)) ELSE None,
                    avg_depth |->
                        IF valid # 0 THEN Some(Frac(depth_sum, valid)) ELSE None])
    /\ mt_pc' = "done"
    /\ UNCHANGED <<mt_summary, mt_profile, mt_bad_th, rows, mt_i,
                   total, bad, cp_sum, depth_sum, valid>>
    /\ UNCHANGED notMt

NextMetrics == LoadRows \/ CountRow \/ Report

\* the results the aggregate is about: those of the requested profile, all
\* of them when none is requested
Aggregated ==
    {i \in 1..Len(mt_summary) :
        IsNone(mt_profile) \/ mt_summary[i].profile = Val(mt_profile)}
ValidOnes == {i \in Aggregated : mt_summary[i].eval_cp # None}
BadOnes == {i \in ValidOnes : Val(mt_summary[i].eval_cp) <= mt_bad_th}

\* C4: total = number of results, valid = number of results with a non-null
\* eval_cp, bad_count = number of valid results with eval_cp <= badThreshold,
\* spike_rate_percent = bad_count / valid * 100, null iff valid = 0.
C4_Aggregate ==
    mt_pc = "done" =>
        LET o == Val(out) IN
        /\ o.total = Cardinality(Aggregated)
        /\ o.valid = Cardinality(ValidOnes)
        /\ o.bad_count = Cardinality(BadOnes)
        /\ IsNone(o.spike_rate_percent) <=> o.valid = 0
        /\ o.valid # 0 =>
              FracEq(Val(o.spike_rate_percent),
                     Frac(100 * Cardinality(BadOnes), Cardinality(ValidOnes)))

\* scores -700, -100, null with threshold -600: valid 2, bad 1, rate 50
C4_Witness ==
    /\ mt_pc = "done"
    /\ [i \in 1..Len(mt_summary) |-> mt_summary[i].eval_cp]
          = <<Some(-700), Some(-100), None>>
    /\ mt_bad_th = -600
    /\ Val(out).total = 3 /\ Val(out).valid = 2 /\ Val(out).bad_count = 1
    /\ FracEq(Val(Val(out).spike_rate_percent), Frac(50, 1))

(***************************************************************************)
(* SPSA: spsa_optimize.py                                                  *)
(***************************************************************************)
\* Python's round() of the quotient n/d, d > 0: to the nearest integer, a
\* tie to the even one
RoundHalfEven(n, d) ==
    LET q == n \div d
        r == n - q * d
    IN IF 2 * r < d THEN q
       ELSE IF 2 * r > d THEN q + 1
       ELSE IF q % 2 = 0 THEN q ELSE q + 1

\* clamp_step without its two clamps: the nearest grid point, wherever it is
clamp_step_snap_only(x, mn, mx, step) ==
    IF step > 1 THEN RoundHalfEven(x - mn, step) * step + mn ELSE x

clamp_step(x, mn, mx, step) ==
    LET x1 == Max2(mn, Min2(mx, x)) IN
    IF step # 0 /\ step > 1
    THEN LET r == RoundHalfEven(x1 - mn, step) * step + mn
         IN Max2(mn, Min2(mx, r))
    ELSE x1

\* b ** e for a natural exponent
Pow(b, e) ==
    LET RECURSIVE loop(_, _)
        loop(i, acc) == IF i = 0 THEN acc ELSE loop(i - 1, acc * b)
    IN loop(e, 1)

\* ak = a0 / ((it + A) ** alpha), ck = c0 / (it ** gamma)
GainA(c, k) == Frac(c.a0.num, c.a0.den * Pow(k + c.A, c.alpha))
GainC(c, k) == Frac(c.c0.num, c.c0.den * Pow(k, c.gamma))

\* d = int(round(ck * step)) if step>0 else int(round(ck)); if d < 1: d = 1
PerturbSize(ck, step) ==
    LET d == IF step > 0 THEN RoundHalfEven(ck.num * step, ck.den)
             ELSE RoundHalfEven(ck.num, ck.den)
    IN IF d < 1 THEN 1 ELSE d

\* m['spike_rate_percent'] or 0.0
Objective(m) == IF IsNone(m) THEN 0 ELSE Val(m)

\* int(round(theta[k] - ak * g[k] * step)) with
\* g[k] = (Jp - Jm) / max(abs(theta_plus[k] - theta_minus[k]), 1)
NewValue(th, ak, Jp, Jm, tp, tm, step) ==
    LET d == Max2(Abs(tp - tm), 1)
        num == ak.num * (Jp - Jm) * step
        den == ak.den * d
    IN RoundHalfEven(th * den - num, den)

Keys == {"p", "q"}
\* the tunables of the configurations: (init, min, max, step)
TunablesP ==
    {[init |-> 150, min |-> 100, max |-> 200, step |-> 10],
     [init |-> 200, min |-> 100, max |-> 200, step |-> 10],
     [init |-> 2, min |-> 0, max |-> 3, step |-> 2],
     [init |-> 4, min |-> 0, max |-> 8, step |-> 4]}
TunablesQ == {[init |-> 2, min |-> 0, max |-> 4, step |-> 1]}
\* (alpha, gamma): constant gains, or gains falling as 1/(it+A) and 1/it
Schedules == {<<0, 0>>, <<1, 1>>, <<0, 1>>}
Configs ==
    {[params |-> [k \in Keys |-> IF k = "p" THEN tp ELSE tq],
      a0 |-> Frac(1, 2), c0 |-> Frac(1, 1), A |-> 5,
      alpha |-> sc[1], gamma |-> sc[2]] :
        tp \in TunablesP, tq \in TunablesQ, sc \in Schedules}
\* spike_rate_percent of a candidate: None, or a percentage
Rates == {None, Some(20), Some(50)}
NoVector == [k \in Keys |-> 0]

opIdle ==
    /\ op_pc = "off" /\ cfg = <<>> /\ iters = 0 /\ it = 0 /\ theta = <<>>
    /\ delta_sign = <<>> /\ theta_plus = <<>> /\ theta_minus = <<>>
    /\ m_plus = None /\ m_minus = None /\ op_newv = <<>>

\* lines 83-97: the configuration is read, theta is its init values
InitSPSA ==
    /\ op_pc = "baseline"
    /\ cfg \in Configs
    /\ iters \in 0..MaxIters
    /\ it = 0
    /\ theta = [k \in Keys |-> cfg.params[k].init]
    /\ delta_sign = NoVector /\ theta_plus = NoVector /\ theta_minus = NoVector
    /\ m_plus = None /\ m_minus = None /\ op_newv = NoVector

\* line 100: the baseline evaluation of theta; its result is only printed
Baseline ==
    /\ op_pc = "baseline"
    /\ \E base_metrics \in Rates : op_pc' = "iterate"
    /\ UNCHANGED <<cfg, iters, it, theta, delta_sign, theta_plus, theta_minus,
                   m_plus, m_minus, op_newv>>
    /\ UNCHANGED notOp

\* lines 103-116: the next iteration draws the signs and builds theta+ and
\* theta-
Perturb ==
    /\ op_pc = "iterate" /\ it < iters
    /\ it' = it + 1
    /\ \E sg \in [Keys -> {1, -1}] :
          /\ delta_sign' = sg
          /\ theta_plus' = [k \in Keys |->
                LET pc == cfg.params[k]
                    d == PerturbSize(GainC(cfg, it'), pc.step)
                IN clamp_step(theta[k] + sg[k] * d, pc.min, pc.max, pc.step)]
          /\ theta_minus' = [k \in Keys |->
                LET pc == cfg.params[k]
                    d == PerturbSize(GainC(cfg, it'), pc.step)
                IN clamp_step(theta[k] - sg[k] * d, pc.min, pc.max, pc.step)]
    /\ op_pc' = "eval_plus"
    /\ UNCHANGED <<cfg, iters, theta, m_plus, m_minus, op_newv>>
    /\ UNCHANGED notOp

\* line 118: m_plus = eval_candidate(..., theta_plus, ...)
EvalPlus ==
    /\ op_pc = "eval_plus"
    /\ m_plus' \in Rates
    /\ op_pc' = "eval_minus"
    /\ UNCHANGED <<cfg, iters, it, theta, delta_sign, theta_plus, theta_minus,
                   m_minus, op_newv>>
    /\ UNCHANGED notOp

\* line 119: m_minus = eval_candidate(..., theta_minus, ...)
EvalMinus ==
    /\ op_pc = "eval_minus"
    /\ m_minus' \in Rates
    /\ op_pc' = "update"
    /\ UNCHANGED <<cfg, iters, it, theta, delta_sign, theta_plus, theta_minus,
                   m_plus, op_newv>>
    /\ UNCHANGED notOp

\* lines 121-133: the gradient estimate and the update of theta
Update ==
    /\ op_pc = "update"
    /\ op_newv' = [k \in Keys |->
          NewValue(theta[k], GainA(cfg, it), Objective(m_plus),
                   Objective(m_minus), theta_plus[k], theta_minus[k],
                   cfg.params[k].step)]
    /\ theta' = [k \in Keys |->
          clamp_step(op_newv'[k], cfg.params[k].min, cfg.params[k].max,
                     cfg.params[k].step)]
    /\ op_pc' = "eval_cur"
    /\ UNCHANGED <<cfg, iters, it, delta_sign, theta_plus, theta_minus,
                   m_plus, m_minus>>
    /\ UNCHANGED notOp

\* lines 136-137 with a re-evaluation that feeds back: theta is replaced by
\* theta+ when the updated vector scored no better than theta+ did
EvalCur_feeds_back ==
    /\ op_pc = "eval_cur"
    /\ \E m_cur \in Rates :
          /\ op_pc' = "iterate"
          /\ theta' = IF Objective(m_cur) >= Objective(m_plus)
                      THEN theta_plus ELSE theta
    /\ UNCHANGED <<cfg, iters, it, delta_sign, theta_plus, theta_minus,
                   m_plus, m_minus, op_newv>>
    /\ UNCHANGED notOp

\* lines 136-137: the updated theta is evaluated and printed
EvalCur ==
    /\ op_pc = "eval_cur"
    /\ \E m_cur \in Rates : op_pc' = "iterate"
    /\ UNCHANGED <<cfg, iters, it, theta, delta_sign, theta_plus, theta_minus,
                   m_plus, m_minus, op_newv>>
    /\ UNCHANGED notOp

\* lines 140-143: the final theta is written
WriteFinal ==
    /\ op_pc = "iterate" /\ it >= iters
    /\ op_pc' = "done"
    /\ UNCHANGED <<cfg, iters, it, theta, delta_sign, theta_plus, theta_minus,
                   m_plus, m_minus, op_newv>>
    /\ UNCHANGED notOp

NextSPSA ==
    Baseline \/ Perturb \/ EvalPlus \/ EvalMinus \/ Update \/ EvalCur \/ WriteFinal

\* v lies in [min, max] and is min + j*step for an integer j >= 0
InDomainOnGrid(v, pc) ==
    /\ pc.min <= v /\ v <= pc.max
    /\ \E j \in 0..(pc.max - pc.min) : v = pc.min + j * pc.step

\* C5: every component of theta+ and theta-, of theta after each update and
\* of the final theta lies within [min, max] and is min + j*step, j >= 0.
C5_EmittedInDomainOnGrid ==
    \A k \in Keys :
        /\ op_pc \in {"eval_plus", "eval_minus", "update"} =>
              /\ InDomainOnGrid(theta_plus[k], cfg.params[k])
              /\ InDomainOnGrid(theta_minus[k], cfg.params[k])
        /\ op_pc \in {"eval_cur", "done"} =>
              InDomainOnGrid(theta[k], cfg.params[k])

\* What does hold: every emitted component lies within [min, max].
EmittedInRange ==
    \A k \in Keys :
        /\ op_pc \in {"eval_plus", "eval_minus", "update"} =>
              /\ cfg.params[k].min <= theta_plus[k]
              /\ theta_plus[k] <= cfg.params[k].max
              /\ cfg.params[k].min <= theta_minus[k]
              /\ theta_minus[k] <= cfg.params[k].max
        /\ op_pc \in {"eval_cur", "done"} =>
              /\ cfg.params[k].min <= theta[k]
              /\ theta[k] <= cfg.params[k].max

\* the tunable "p" has the domain min = 100, max = 200, step = 10 and the
\* update proposed 215 for it
Proposed215 ==
    /\ op_pc = "eval_cur"
    /\ cfg.params["p"].min = 100 /\ cfg.params["p"].max = 200
    /\ cfg.params["p"].step = 10
    /\ op_newv["p"] = 215

\* C6 as stated: a proposed update of 215 in the domain (100, 200, 10) is
\* stored as 210.
C6_Stored210 == Proposed215 => theta["p"] = 210

\* C6 amended: a proposed update of 215 in the domain (100, 200, 10) is
\* stored as 200, the maximum of the domain.
C6_Stored200 == Proposed215 => theta["p"] = 200

C6_Witness == Proposed215 /\ theta["p"] = 200

\* the vector that one iteration makes of theta: it is written from the
\* configuration c, the iteration number k, the vector th before it, the
\* drawn signs sg and the objective values Jp, Jm of the two candidates
UpdatedTheta(c, k, th, sg, Jp, Jm) ==
    [key \in Keys |->
        LET pc == c.params[key]
            d == PerturbSize(GainC(c, k), pc.step)
            tp == clamp_step(th[key] + sg[key] * d, pc.min, pc.max, pc.step)
            tm == clamp_step(th[key] - sg[key] * d, pc.min, pc.max, pc.step)
        IN clamp_step(NewValue(th[key], GainA(c, k), Jp, Jm, tp, tm, pc.step),
                      pc.min, pc.max, pc.step)]

\* C23: in every step of an SPSA run theta either stays what it was (the
\* baseline evaluation, the drawing of the candidates, the evaluation of
\* theta+ and of theta-, the re-evaluation of the updated vector, the final
\* report) or, in the update of iteration it, becomes the vector made of the
\* theta before it, the drawn signs and the objective values of theta+ and
\* theta- of this iteration.
C23_ThetaFrame ==
    [][IF op_pc = "update"
       THEN theta' = UpdatedTheta(cfg, it, theta, delta_sign,
                                  Objective(m_plus), Objective(m_minus))
       ELSE theta' = theta]_vars

\* C23 witness: the second iteration has been re-evaluated; its update and
\* the one before it have moved theta away from the initial vector
C23_Witness ==
    /\ op_pc = "iterate" /\ it = 2
    /\ theta # [k \in Keys |-> cfg.params[k].init]
    /\ ~IsNone(m_plus) /\ ~IsNone(m_minus)

\* C26: in the update of an iteration no component moves away from the
\* better candidate: when J(theta+) < J(theta-) every component that changes
\* moves to the side of theta on which its theta+ value lies, and when
\* J(theta-) < J(theta+) to the side on which its theta- value lies,
\* whatever sign was drawn for it.
C26_TowardBetterCandidate ==
    [][op_pc = "update" =>
          LET Jp == Objective(m_plus)
              Jm == Objective(m_minus)
          IN \A k \in Keys :
                theta'[k] # theta[k] =>
                   /\ Jp < Jm =>
                         (theta'[k] - theta[k]) * (theta_plus[k] - theta[k]) > 0
                   /\ Jm < Jp =>
                         (theta'[k] - theta[k]) * (theta_minus[k] - theta[k]) > 0
      ]_vars

\* What the update does: the sign of J(theta+) - J(theta-) alone decides the
\* direction, the same for every component: up when theta+ scored lower,
\* down when theta- scored lower.
UpdateDirectionIgnoresSign ==
    [][op_pc = "update" =>
          \A k \in Keys :
             /\ Objective(m_plus) < Objective(m_minus) => theta'[k] >= theta[k]
             /\ Objective(m_minus) < Objective(m_plus) => theta'[k] <= theta[k]
             /\ Objective(m_plus) = Objective(m_minus) =>
                   theta'[k] = clamp_step(theta[k], cfg.params[k].min,
                                          cfg.params[k].max, cfg.params[k].step)
      ]_vars

\* the sign -1 was drawn for "p", theta+ (below theta in "p") scored lower
\* than theta-, and the update has moved "p" up, past the theta- value or
\* onto it
MovedToWorseCandidate ==
    /\ op_pc = "eval_cur"
    /\ delta_sign["p"] = -1
    /\ Objective(m_plus) < Objective(m_minus)
    /\ theta_plus["p"] < theta_minus["p"]
    /\ theta["p"] >= theta_minus["p"]

\* C27: while the candidates of an iteration are in use, every tunable whose
\* current value is on its step grid and strictly between min and max has
\* different values in theta+ and theta-.
C27_CandidatesDiffer ==
    op_pc \in {"eval_plus", "eval_minus", "update"} =>
        \A k \in Keys :
            (/\ InDomainOnGrid(theta[k], cfg.params[k])
             /\ cfg.params[k].min < theta[k]
             /\ theta[k] < cfg.params[k].max)
            => theta_plus[k] # theta_minus[k]

\* What does hold: the candidates differ in such a component whenever the
\* perturbation is at least half a step
CandidatesDifferFromHalfStep ==
    op_pc \in {"eval_plus", "eval_minus", "update"} =>
        \A k \in Keys :
            (/\ InDomainOnGrid(theta[k], cfg.params[k])
             /\ cfg.params[k].min < theta[k]
             /\ theta[k] < cfg.params[k].max
             /\ 2 * PerturbSize(GainC(cfg, it), cfg.params[k].step)
                   > cfg.params[k].step)
            => theta_plus[k] # theta_minus[k]

\* in the second iteration, where ck = 1/2, the tunable "p" with step 10 is
\* at 140, on its grid and inside its domain, and both candidates hold 140
\* for it
CandidatesCoincide ==
    /\ op_pc = "update" /\ it = 2
    /\ cfg.params["p"].step = 10
    /\ theta["p"] = 140 /\ theta_plus["p"] = 140 /\ theta_minus["p"] = 140

(***************************************************************************)
(* Regression suite: run_regression_checks.py                              *)
(***************************************************************************)
\* A line of summary.txt is kept as what the two patterns take from it:
\*   kind "bestmove": RE_BESTMOVE matches, with num and move;
\*   kind "info": RE_INFO matches (and RE_BESTMOVE does not), with num, depth,
\*     seldepth, score, and mate when the line holds "score mate";
\*   kind "other": blank, a comment, or a line neither pattern matches.
\* The exception a scenario ends with is kept as a record of the fields its
\* message is formatted from.
UNKNOWN == "(unknown)"

\* index of prefix num in results (a dict in insertion order), 0 if absent
ResultIndex(results, num) ==
    LET I == {i \in 1..Len(results) : results[i].num = num}
    IN IF I = {} THEN 0 ELSE MinOf(I)

\* lines 159-176: what one line does to results
ParseLine(results, line) ==
    LET i == ResultIndex(results, line.num) IN
    IF line.kind = "bestmove"
    THEN IF i = 0
         THEN Append(results, [num |-> line.num, bestmove |-> line.move,
                               depth |-> 0, seldepth |-> 0, score_cp |-> 0])
         ELSE [results EXCEPT ![i].bestmove = line.move]
    ELSE IF line.kind = "info"
    THEN LET score == IF line.mate
                      THEN IF line.score > 0 THEN 100000 ELSE -100000
                      ELSE line.score
         IN IF i = 0
            THEN Append(results, [num |-> line.num, bestmove |-> UNKNOWN,
                                  depth |-> line.depth,
                                  seldepth |-> line.seldepth,
                                  score_cp |-> score])
            ELSE [results EXCEPT ![i].depth = line.depth,
                                 ![i].seldepth = line.seldepth,
                                 ![i].score_cp = score]
    ELSE results

\* RegressionSuite._parse_summary: [ok |-> TRUE, results |-> ...] or
\* [ok |-> FALSE, reason |-> ...]
parse_summary(lines) ==
    LET RECURSIVE loop(_, _)
        loop(i, acc) ==
            IF i > Len(lines) THEN acc ELSE loop(i + 1, ParseLine(acc, lines[i]))
        results == loop(1, <<>>)
        missing == SelectSeq(results, LAMBDA r : r.bestmove = UNKNOWN)
    IN IF missing # <<>>
       THEN [ok |-> FALSE,
             reason |-> [kind |-> "summary missing data for prefixes",
                         prefixes |-> [j \in 1..Len(missing) |-> missing[j].num]]]
       ELSE [ok |-> TRUE, results |-> results]

\* lines 184-198 without the test of line 185: an absent prefix passes
CheckPrefix_skip_absent(scn, results, prefix) ==
    LET i == ResultIndex(results, prefix) IN
    IF i = 0 THEN None
    ELSE LET res == results[i] IN
         IF ~IsNone(scn.score_cp_min) /\ res.score_cp < Val(scn.score_cp_min)
         THEN Some([kind |-> "score < min", prefix |-> prefix,
                    actual |-> res.score_cp, bound |-> Val(scn.score_cp_min)])
         ELSE None

\* lines 184-198: the checks of one declared prefix; None when all pass
CheckPrefix(scn, results, prefix) ==
    LET i == ResultIndex(results, prefix) IN
    IF i = 0
    THEN Some([kind |-> "missing in summary", prefix |-> prefix])
    ELSE LET res == results[i] IN
         IF ~IsNone(scn.score_cp_min) /\ res.score_cp < Val(scn.score_cp_min)
         THEN Some([kind |-> "score < min", prefix |-> prefix,
                    actual |-> res.score_cp, bound |-> Val(scn.score_cp_min)])
         ELSE IF ~IsNone(scn.score_cp_max) /\ res.score_cp > Val(scn.score_cp_max)
         THEN Some([kind |-> "score > max", prefix |-> prefix,
                    actual |-> res.score_cp, bound |-> Val(scn.score_cp_max)])
         ELSE IF ~IsNone(scn.seldepth_max) /\ res.seldepth > Val(scn.seldepth_max)
         THEN Some([kind |-> "seldepth > max", prefix |-> prefix,
                    actual |-> res.seldepth, bound |-> Val(scn.seldepth_max)])
         ELSE None

\* line 199: guard_map = {pg.number: pg for pg in scn.prefix_guards}, in
\* insertion order: a number keeps the place of its first guard and the
\* value of its last
GuardMap(guards) ==
    LET firsts == SelectSeq([j \in 1..Len(guards) |-> j],
                            LAMBDA j : \A h \in 1..(j - 1) :
                                           guards[h].number # guards[j].number)
        lastOf(n) == CHOOSE j \in 1..Len(guards) :
                        /\ guards[j].number = n
                        /\ \A h \in (j + 1)..Len(guards) : guards[h].number # n
    IN [j \in 1..Len(firsts) |-> guards[lastOf(guards[firsts[j]].number)]]

\* lines 201-215: the checks of one prefix guard; None when all pass
CheckGuard(results, guard) ==
    LET i == ResultIndex(results, guard.number) IN
    IF i = 0
    THEN Some([kind |-> "prefix guard missing", prefix |-> guard.number])
    ELSE LET res == results[i] IN
         IF guard.allowed_moves # {} /\ res.bestmove \notin guard.allowed_moves
         THEN Some([kind |-> "bestmove not in", prefix |-> guard.number,
                    actual |-> res.bestmove, bound |-> guard.allowed_moves])
         ELSE IF ~IsNone(guard.min_cp) /\ res.score_cp < Val(guard.min_cp)
         THEN Some([kind |-> "score < guard min", prefix |-> guard.number,
                    actual |-> res.score_cp, bound |-> Val(guard.min_cp)])
         ELSE IF ~IsNone(guard.max_cp) /\ res.score_cp > Val(guard.max_cp)
         THEN Some([kind |-> "score > guard max", prefix |-> guard.number,
                    actual |-> res.score_cp, bound |-> Val(guard.max_cp)])
         ELSE None

\* _check_bounds with the loop over the guards (lines 199-215) put before
\* the loop over scn.prefixes (lines 183-198)
check_bounds_guards_first(scn, results) ==
    LET guards == GuardMap(scn.prefix_guards)
        RECURSIVE prefixLoop(_)
        prefixLoop(j) ==
            IF j > Len(scn.prefixes) THEN None
            ELSE LET r == CheckPrefix(scn, results, scn.prefixes[j])
                 IN IF IsNone(r) THEN prefixLoop(j + 1) ELSE r
        RECURSIVE guardLoop(_)
        guardLoop(j) ==
            IF j > Len(guards) THEN prefixLoop(1)
            ELSE LET r == CheckGuard(results, guards[j])
                 IN IF IsNone(r) THEN guardLoop(j + 1) ELSE r
    IN guardLoop(1)
\* RegressionSuite._check_bounds: the first exception raised, None when the
\* method returns
check_bounds(scn, results) ==
    LET guards == GuardMap(scn.prefix_guards)
        RECURSIVE guardLoop(_)
        guardLoop(j) ==
            IF j > Len(guards) THEN None
            ELSE LET r == CheckGuard(results, guards[j])
                 IN IF IsNone(r) THEN guardLoop(j + 1) ELSE r
        RECURSIVE prefixLoop(_)
        prefixLoop(j) ==
            IF j > Len(scn.prefixes) THEN guardLoop(1)
            ELSE LET r == CheckPrefix(scn, results, scn.prefixes[j])
                 IN IF IsNone(r) THEN prefixLoop(j + 1) ELSE r
    IN prefixLoop(1)

\* lines 111-113: the body of the try block: None when the scenario
\* passes, the exception otherwise. The replay is the environment's part: it
\* raises (the script exits non-zero, or leaves no summary.txt) or leaves a
\* summary.
Verdict(scn, replay) ==
    IF ~replay.ok THEN Some([kind |-> "replay failed"])
    ELSE LET parsed == parse_summary(replay.summary) IN
         IF ~parsed.ok THEN Some(parsed.reason)
         ELSE check_bounds(scn, parsed.results)

\* Inputs: the scenarios
NoGuards == <<>>
ScenarioDefs ==
    {[name |-> "bounds", prefixes |-> <<1, 2>>,
      score_cp_min |-> Some(-100), score_cp_max |-> Some(300),
      seldepth_max |-> Some(30), prefix_guards |-> NoGuards],
     [name |-> "guarded", prefixes |-> <<1, 2>>,
      score_cp_min |-> Some(-200), score_cp_max |-> None,
      seldepth_max |-> None,
      prefix_guards |-> <<[number |-> 2, allowed_moves |-> {"7g7f"},
                           min_cp |-> Some(0), max_cp |-> None]>>],
     [name |-> "single", prefixes |-> <<1>>,
      score_cp_min |-> None, score_cp_max |-> None, seldepth_max |-> None,
      prefix_guards |-> NoGuards]}

BestLine(n, mv) ==
    [kind |-> "bestmove", num |-> n, move |-> mv,
     depth |-> 0, seldepth |-> 0, score |-> 0, mate |-> FALSE]
InfoLine(n, d, sd, sc) ==
    [kind |-> "info", num |-> n, move |-> "",
     depth |-> d, seldepth |-> sd, score |-> sc, mate |-> FALSE]
MateLine(n, d, sd, sc) ==
    [kind |-> "info", num |-> n, move |-> "",
     depth |-> d, seldepth |-> sd, score |-> sc, mate |-> TRUE]
OtherLine ==
    [kind |-> "other", num |-> 0, move |-> "",
     depth |-> 0, seldepth |-> 0, score |-> 0, mate |-> FALSE]

\* the lines a summary may hold for prefix 1 and for prefix 2
LinesOfPrefix1 ==
    {<<>>,
     <<BestLine(1, "7g7f")>>,
     <<BestLine(1, "7g7f"), InfoLine(1, 12, 20, 50)>>,
     <<BestLine(1, "7g7f"), InfoLine(1, 12, 20, -250)>>,
     <<BestLine(1, "7g7f"), InfoLine(1, 12, 40, -250)>>,
     <<BestLine(1, "7g7f"), MateLine(1, 12, 20, 3)>>,
     <<InfoLine(1, 12, 20, 50)>>}
LinesOfPrefix2 ==
    {<<>>,
     <<BestLine(2, "7g7f"), InfoLine(2, 12, 20, 50)>>,
     <<InfoLine(2, 12, 40, 50), BestLine(2, "2g2f")>>,
     <<InfoLine(2, 12, 20, 50)>>}
Summaries ==
    {<<OtherLine>> \o a \o b : a \in LinesOfPrefix1, b \in LinesOfPrefix2}

Replays ==
    {[ok |-> TRUE, summary |-> sm] : sm \in Summaries}
    \cup {[ok |-> FALSE, summary |-> <<>>]}

\* line 115: `except Exception` catches the failure and the loop goes on
AfterFailure_uncaught == "raised"
AfterFailure == "loop"

rgIdle ==
    /\ rg_pc = "off" /\ rg_scenarios = <<>> /\ rg_i = 0 /\ rg_ran = <<>>
    /\ rg_last = None /\ failures = <<>> /\ rg_printed = <<>> /\ rg_ret = None

\* RegressionSuite.__init__ has built self.scenarios (never empty when every
\* entry is selected); run starts with failures = []
InitRegress ==
    /\ rg_pc = "loop"
    /\ rg_scenarios \in SeqsUpTo(ScenarioDefs, MaxScenarios) \ {<<>>}
    /\ rg_i = 1
    /\ rg_ran = <<>>
    /\ rg_last = None
    /\ failures = <<>>
    /\ rg_printed = <<>>
    /\ rg_ret = None

\* lines 108-109: a pass of `for scn in self.scenarios` starts: the name of
\* the scenario is printed, and _run waits for the replay script
StartScenario ==
    /\ rg_pc = "loop" /\ rg_i <= Len(rg_scenarios)
    /\ rg_printed' = Append(rg_printed, <<"scenario", rg_scenarios[rg_i].name>>)
    /\ rg_pc' = "replay"
    /\ UNCHANGED <<rg_scenarios, rg_i, rg_ran, rg_last, failures, rg_ret>>
    /\ UNCHANGED notRg

\* lines 110-114: the replay has ended, and the scenario passes
RunScenarioPass ==
    /\ rg_pc = "replay"
    /\ LET scn == rg_scenarios[rg_i] IN
       \E replay \in Replays :
          /\ IsNone(Verdict(scn, replay))
          /\ rg_ran' = Append(rg_ran, scn.name)
          /\ rg_last' = Some([scn |-> scn, replay |-> replay,
                              verdict |-> "PASS", reason |-> None])
          /\ rg_printed' = Append(rg_printed, <<"PASS", scn.name>>)
    /\ rg_pc' = "loop"
    /\ rg_i' = rg_i + 1
    /\ UNCHANGED <<rg_scenarios, failures, rg_ret>>
    /\ UNCHANGED notRg

\* lines 110-117: the replay has ended, and the replay, the parse or the
\* check raises
RunScenarioFail ==
    /\ rg_pc = "replay"
    /\ LET scn == rg_scenarios[rg_i] IN
       \E replay \in Replays :
          LET exc == Verdict(scn, replay) IN
          /\ ~IsNone(exc)
          /\ rg_ran' = Append(rg_ran, scn.name)
          /\ rg_last' = Some([scn |-> scn, replay |-> replay,
                              verdict |-> "FAIL", reason |-> exc])
          /\ failures' = Append(failures, <<scn.name, Val(exc)>>)
          /\ rg_printed' = Append(rg_printed, <<"FAIL", scn.name, Val(exc)>>)
    /\ rg_pc' = AfterFailure
    /\ rg_i' = rg_i + 1
    /\ UNCHANGED <<rg_scenarios, rg_ret>>
    /\ UNCHANGED notRg

\* lines 118-123: after the loop the failures are listed and run returns
Finish ==
    /\ rg_pc = "loop" /\ rg_i > Len(rg_scenarios)
    /\ IF failures # <<>>
       THEN /\ rg_printed' = Append(rg_printed, <<"Failures", failures>>)
            /\ rg_ret' = Some(1)
       ELSE /\ rg_printed' = rg_printed
            /\ rg_ret' = Some(0)
    /\ rg_pc' = "done"
    /\ UNCHANGED <<rg_scenarios, rg_i, rg_ran, rg_last, failures>>
    /\ UNCHANGED notRg

NextRegress == StartScenario \/ RunScenarioPass \/ RunScenarioFail \/ Finish

\* What a summary says of a prefix, read off its lines
Occurs(sm, p) ==
    \E i \in 1..Len(sm) : sm[i].kind \in {"bestmove", "info"} /\ sm[i].num = p
LastOf(sm, kind, p) ==
    LET I == {i \in 1..Len(sm) : sm[i].kind = kind /\ sm[i].num = p}
    IN IF I = {} THEN 0 ELSE CHOOSE i \in I : \A j \in I : j <= i
KnownBest(sm, p) ==
    LastOf(sm, "bestmove", p) # 0 /\ sm[LastOf(sm, "bestmove", p)].move # UNKNOWN
ScoreOf(sm, p) ==
    LET i == LastOf(sm, "info", p) IN
    IF i = 0 THEN 0
    ELSE IF sm[i].mate THEN (IF sm[i].score > 0 THEN 100000 ELSE -100000)
    ELSE sm[i].score
SeldepthOf(sm, p) ==
    LET i == LastOf(sm, "info", p) IN IF i = 0 THEN 0 ELSE sm[i].seldepth
BoundsMet(scn, sm, p) ==
    /\ IsNone(scn.score_cp_min) \/ ScoreOf(sm, p) >= Val(scn.score_cp_min)
    /\ IsNone(scn.score_cp_max) \/ ScoreOf(sm, p) <= Val(scn.score_cp_max)
    /\ IsNone(scn.seldepth_max) \/ SeldepthOf(sm, p) <= Val(scn.seldepth_max)
GuardMet(g, sm) ==
    /\ Occurs(sm, g.number)
    /\ g.allowed_moves = {}
         \/ (LastOf(sm, "bestmove", g.number) # 0
             /\ sm[LastOf(sm, "bestmove", g.number)].move \in g.allowed_moves)
    /\ IsNone(g.min_cp) \/ ScoreOf(sm, g.number) >= Val(g.min_cp)
    /\ IsNone(g.max_cp) \/ ScoreOf(sm, g.number) <= Val(g.max_cp)
GuardsMet(scn, sm) ==
    \A j \in 1..Len(scn.prefix_guards) :
        \* of two guards on one prefix the later one is the one in force
        (\A h \in (j + 1)..Len(scn.prefix_guards) :
            scn.prefix_guards[h].number # scn.prefix_guards[j].number)
        => GuardMet(scn.prefix_guards[j], sm)
AbsentDeclared(scn, sm) ==
    {j \in 1..Len(scn.prefixes) : ~Occurs(sm, scn.prefixes[j])}
PrefixNumbers(sm) ==
    {sm[i].num : i \in {k \in 1..Len(sm) : sm[k].kind \in {"bestmove", "info"}}}

\* C7 (as stated): for the scenario just run, with a replay that left a
\* summary: if the summary holds a known best move for each declared prefix
\* and all global bounds and prefix guards are satisfied, the verdict is PASS;
\* if a declared prefix is absent from the summary, the verdict is FAIL and
\* the reason says that an absent declared prefix is missing.
C7_PassOrMissingReason ==
    (~IsNone(rg_last) /\ Val(rg_last).replay.ok) =>
        LET scn == Val(rg_last).scn
            sm == Val(rg_last).replay.summary
        IN /\ ((\A j \in 1..Len(scn.prefixes) :
                    KnownBest(sm, scn.prefixes[j])
                    /\ BoundsMet(scn, sm, scn.prefixes[j]))
               /\ GuardsMet(scn, sm))
              => Val(rg_last).verdict = "PASS"
           /\ AbsentDeclared(scn, sm) # {}
              => /\ Val(rg_last).verdict = "FAIL"
                 /\ Val(Val(rg_last).reason).kind = "missing in summary"
                 /\ \E j \in AbsentDeclared(scn, sm) :
                        Val(Val(rg_last).reason).prefix = scn.prefixes[j]

\* C7 (amended): for the scenario just run, with a replay that left a
\* summary: if every prefix occurring in the summary has a known best move,
\* every declared prefix occurs in it and meets the global bounds, and the
\* prefix guards are satisfied, the verdict is PASS; if a declared prefix is
\* absent the verdict is FAIL, and the reason says that the first absent
\* declared prefix is missing whenever every prefix occurring in the summary
\* has a known best move and the declared prefixes before it meet the global
\* bounds.
C7_PassOrFirstMissing ==
    (~IsNone(rg_last) /\ Val(rg_last).replay.ok) =>
        LET scn == Val(rg_last).scn
            sm == Val(rg_last).replay.summary
            allKnown == \A p \in PrefixNumbers(sm) : KnownBest(sm, p)
            first == MinOf(AbsentDeclared(scn, sm))
        IN /\ (allKnown
               /\ (\A j \in 1..Len(scn.prefixes) :
                      Occurs(sm, scn.prefixes[j])
                      /\ BoundsMet(scn, sm, scn.prefixes[j]))
               /\ GuardsMet(scn, sm))
              => Val(rg_last).verdict = "PASS"
           /\ AbsentDeclared(scn, sm) # {}
              => /\ Val(rg_last).verdict = "FAIL"
                 /\ (allKnown
                     /\ \A j \in 1..(first - 1) :
                            BoundsMet(scn, sm, scn.prefixes[j]))
                    => Val(rg_last).reason =
                          Some([kind |-> "missing in summary",
                                prefix |-> scn.prefixes[first]])

\* C7 witness: a scenario whose second declared prefix is absent from a
\* summary that holds the first one has just been reported as failing
C7_Witness ==
    /\ ~IsNone(rg_last) /\ Val(rg_last).replay.ok
    /\ Len(Val(rg_last).scn.prefixes) = 2
    /\ KnownBest(Val(rg_last).replay.summary, Val(rg_last).scn.prefixes[1])
    /\ ~Occurs(Val(rg_last).replay.summary, Val(rg_last).scn.prefixes[2])
    /\ Val(rg_last).verdict = "FAIL"
    /\ Val(rg_last).reason = Some([kind |-> "missing in summary", prefix |-> 2])

\* the events of rg_printed that report a scenario's verdict
VerdictEvents == SelectSeq(rg_printed, LAMBDA e : e[1] \in {"PASS", "FAIL"})
FailEvents == SelectSeq(rg_printed, LAMBDA e : e[1] = "FAIL")
\* the events of rg_printed that announce a scenario
ScenarioEvents == SelectSeq(rg_printed, LAMBDA e : e[1] = "scenario")

\* C8: a failing scenario never stops the suite: no exception leaves the
\* loop, the scenarios run so far are the first ones of self.scenarios in
\* order, nothing but the per-scenario lines is printed while the loop runs,
\* and when run returns every scenario has been run exactly once, the
\* failures are listed once after the last scenario, and the return value is 1
\* if some scenario failed and 0 if none did.
C8_SuiteRunsAll ==
    /\ rg_pc \in {"loop", "replay", "done"}
    /\ Len(rg_ran) <= Len(rg_scenarios)
    /\ \A i \in 1..Len(rg_ran) : rg_ran[i] = rg_scenarios[i].name
    /\ Len(VerdictEvents) = Len(rg_ran)
    /\ \A i \in 1..Len(rg_ran) : VerdictEvents[i][2] = rg_ran[i]
    /\ Len(ScenarioEvents) = Len(rg_ran) + (IF rg_pc = "replay" THEN 1 ELSE 0)
    /\ \A i \in 1..Len(ScenarioEvents) :
          ScenarioEvents[i][2] = rg_scenarios[i].name
    /\ rg_pc \in {"loop", "replay"} =>
          /\ IsNone(rg_ret)
          /\ \A i \in 1..Len(rg_printed) : rg_printed[i][1] # "Failures"
    /\ rg_pc = "done" =>
          /\ Len(rg_ran) = Len(rg_scenarios)
          /\ rg_ret = IF FailEvents # <<>> THEN Some(1) ELSE Some(0)
          /\ FailEvents # <<>> =>
                /\ rg_printed[Len(rg_printed)][1] = "Failures"
                /\ rg_printed[Len(rg_printed)][2] =
                      [i \in 1..Len(FailEvents) |->
                          <<FailEvents[i][2], FailEvents[i][3]>>]
                /\ \A i \in 1..(Len(rg_printed) - 1) :
                      rg_printed[i][1] # "Failures"
          /\ FailEvents = <<>> =>
                \A i \in 1..Len(rg_printed) : rg_printed[i][1] # "Failures"

\* C8 witness: run has returned 1 after a first scenario that failed and a
\* second one that passed
C8_Witness ==
    /\ rg_pc = "done" /\ rg_ret = Some(1)
    /\ Len(rg_scenarios) = 2 /\ Len(rg_ran) = 2
    /\ VerdictEvents[1][1] = "FAIL" /\ VerdictEvents[2][1] = "PASS"

\* the declared prefixes (by their place in scn.prefixes) whose score line
\* in the summary breaks a global bound
BoundBreakers(scn, sm) ==
    {j \in 1..Len(scn.prefixes) :
        /\ LastOf(sm, "info", scn.prefixes[j]) # 0
        /\ ~BoundsMet(scn, sm, scn.prefixes[j])}
\* reason r names prefix p, a global bound of scn that p breaks in sm, and
\* the actual value
NamesBrokenBound(r, scn, sm, p) ==
    /\ "prefix" \in DOMAIN r
    /\ r.prefix = p
    /\ \/ /\ r.kind = "score < min" /\ ~IsNone(scn.score_cp_min)
          /\ r.bound = Val(scn.score_cp_min) /\ r.actual = ScoreOf(sm, p)
          /\ r.actual < r.bound
       \/ /\ r.kind = "score > max" /\ ~IsNone(scn.score_cp_max)
          /\ r.bound = Val(scn.score_cp_max) /\ r.actual = ScoreOf(sm, p)
          /\ r.actual > r.bound
       \/ /\ r.kind = "seldepth > max" /\ ~IsNone(scn.seldepth_max)
          /\ r.bound = Val(scn.seldepth_max) /\ r.actual = SeldepthOf(sm, p)
          /\ r.actual > r.bound

\* C22 as stated: for the scenario just run, with a replay that left a
\* summary: if the score line of a declared prefix breaks a global bound
\* (score below score_cp_min, score above score_cp_max, seldepth above
\* seldepth_max) the verdict is FAIL, and when the declared prefixes before
\* the first such prefix are present and within the bounds, the reason names
\* that first prefix, a bound it breaks and the actual value. This does not
\* hold: a prefix of the summary without a best move makes _parse_summary
\* raise before any bound is looked at.
C22_FailsAtFirstViolation ==
    (~IsNone(rg_last) /\ Val(rg_last).replay.ok) =>
        LET scn == Val(rg_last).scn
            sm == Val(rg_last).replay.summary
            first == MinOf(BoundBreakers(scn, sm))
        IN BoundBreakers(scn, sm) # {} =>
              /\ Val(rg_last).verdict = "FAIL"
              /\ (\A j \in 1..(first - 1) :
                         /\ Occurs(sm, scn.prefixes[j])
                         /\ BoundsMet(scn, sm, scn.prefixes[j]))
                 => NamesBrokenBound(Val(Val(rg_last).reason), scn, sm,
                                     scn.prefixes[first])

\* C22, amended: for the scenario just run, with a replay that left a
\* summary: if the score line of a declared prefix breaks a global bound
\* (score below score_cp_min, score above score_cp_max, seldepth above
\* seldepth_max) the verdict is FAIL; and when every prefix of the summary
\* has a best move and the declared prefixes before the first such prefix
\* are present and within the bounds, the reason names that first prefix, a
\* bound it breaks and the actual value: the later prefixes and the guards
\* are not looked at.
C22_FailsAtFirstBound ==
    (~IsNone(rg_last) /\ Val(rg_last).replay.ok) =>
        LET scn == Val(rg_last).scn
            sm == Val(rg_last).replay.summary
            allKnown == \A p \in PrefixNumbers(sm) : KnownBest(sm, p)
            first == MinOf(BoundBreakers(scn, sm))
        IN BoundBreakers(scn, sm) # {} =>
              /\ Val(rg_last).verdict = "FAIL"
              /\ (allKnown
                  /\ \A j \in 1..(first - 1) :
                         /\ Occurs(sm, scn.prefixes[j])
                         /\ BoundsMet(scn, sm, scn.prefixes[j]))
                 => NamesBrokenBound(Val(Val(rg_last).reason), scn, sm,
                                     scn.prefixes[first])

\* C22 witness: prefix 1 scored -250 under a global minimum of -200 and the
\* best move of prefix 2 is not one its guard allows: the scenario failed on
\* the bound of prefix 1, with the bound and the value in the reason
C22_Witness ==
    /\ ~IsNone(rg_last) /\ Val(rg_last).replay.ok
    /\ Val(rg_last).scn.score_cp_min = Some(-200)
    /\ Val(rg_last).scn.prefix_guards # <<>>
    /\ KnownBest(Val(rg_last).replay.summary, 2)
    /\ ~GuardsMet(Val(rg_last).scn, Val(rg_last).replay.summary)
    /\ Val(rg_last).verdict = "FAIL"
    /\ Val(rg_last).reason =
          Some([kind |-> "score < min", prefix |-> 1, actual |-> -250,
                bound |-> -200])
\* prefix 1 scored -250 under a global minimum of -100 and prefix 2 went to
\* seldepth 40 over a maximum of 30: the scenario failed on prefix 1
FirstOfTwoBreakersNamed ==
    /\ ~IsNone(rg_last) /\ Val(rg_last).replay.ok
    /\ Val(rg_last).scn.score_cp_min = Some(-100)
    /\ BoundBreakers(Val(rg_last).scn, Val(rg_last).replay.summary) = {1, 2}
    /\ Val(rg_last).verdict = "FAIL"
    /\ Val(rg_last).reason =
          Some([kind |-> "score < min", prefix |-> 1, actual |-> -250,
                bound |-> -100])
\* prefix 1 scored -250 under a global minimum of -100 and prefix 2 has a
\* score line and no best move: the reason is that of _parse_summary
BreakerWithParseFailure ==
    /\ ~IsNone(rg_last) /\ Val(rg_last).replay.ok
    /\ 1 \in BoundBreakers(Val(rg_last).scn, Val(rg_last).replay.summary)
    /\ Val(rg_last).verdict = "FAIL"
    /\ Val(Val(rg_last).reason).kind = "summary missing data for prefixes"

\* the prefixes whose score or seldepth the checker of scn compares with a
\* bound or a guard: the declared prefixes when a global bound is set, and
\* the guarded prefixes whose guard has a score bound
ComparedPrefixes(scn) ==
    (IF IsNone(scn.score_cp_min) /\ IsNone(scn.score_cp_max)
        /\ IsNone(scn.seldepth_max)
     THEN {}
     ELSE {scn.prefixes[j] : j \in 1..Len(scn.prefixes)})
    \cup {scn.prefix_guards[j].number :
            j \in {h \in 1..Len(scn.prefix_guards) :
                     ~IsNone(scn.prefix_guards[h].min_cp)
                     \/ ~IsNone(scn.prefix_guards[h].max_cp)}}

\* C29: for the scenario just run, with a replay that left a summary: when
\* the verdict is PASS, every prefix whose score or seldepth was compared
\* with a global bound or a guard has a score line in the summary, so that
\* no prefix passes on the values a result is created with.
C29_ComparedValuesWereParsed ==
    (~IsNone(rg_last) /\ Val(rg_last).replay.ok
     /\ Val(rg_last).verdict = "PASS") =>
        \A p \in ComparedPrefixes(Val(rg_last).scn) :
            LastOf(Val(rg_last).replay.summary, "info", p) # 0

\* a scenario with global bounds passed although prefix 1 has a best move
\* and no score line
PassedOnDefault ==
    /\ ~IsNone(rg_last) /\ Val(rg_last).replay.ok
    /\ Val(rg_last).verdict = "PASS"
    /\ Val(rg_last).scn.score_cp_min = Some(-100)
    /\ KnownBest(Val(rg_last).replay.summary, 1)
    /\ LastOf(Val(rg_last).replay.summary, "info", 1) = 0


(***************************************************************************)
(* Engine session: run_eval_targets.py (_read_until is the same function   *)
(* in run_eval_targets_params.py)                                          *)
(***************************************************************************)
NL == "\n"
STR_USIOK == <<"u", "s", "i", "o", "k">>
STR_READYOK == <<"r", "e", "a", "d", "y", "o", "k">>
STR_BESTMOVE == <<" ", "b", "e", "s", "t", "m", "o", "v", "e", " ">>
STR_EMPTY == <<>>

\* buf.split('\n') followed by lines.pop(): the pieces before each newline,
\* and the piece after the last one
SplitLines(s) ==
    LET RECURSIVE loop(_, _, _)
        loop(i, cur, acc) ==
            IF i > Len(s) THEN [lines |-> acc, rest |-> cur]
            ELSE IF s[i] = NL THEN loop(i + 1, <<>>, Append(acc, cur))
            ELSE loop(i + 1, Append(cur, s[i]), acc)
    IN loop(1, <<>>, <<>>)

\* A byte the engine writes is a one-character string when it is ASCII (that
\* character) and the two hexadecimal digits of its value otherwise ("E3").
ByteVal(b) == 16 * HexDigitVal(SubSeq(b, 1, 1)) + HexDigitVal(SubSeq(b, 2, 2))

\* the name "U+XXXX" of the character with code point n
UName(n) ==
    LET Hex == "0123456789ABCDEF"
        RECURSIVE digits(_, _)
        digits(m, k) ==
            IF m = 0 /\ k <= 0 THEN ""
            ELSE digits(m \div 16, k - 1)
                     \o SubSeq(Hex, (m % 16) + 1, (m % 16) + 1)
    IN "U+" \o digits(n, 4)

\* line 31, bytes.decode('utf-8', errors='ignore') of one chunk: the
\* characters of the well-formed sequences; a byte that starts no sequence,
\* the bytes of a sequence broken by its next byte, and a sequence that the
\* end of the chunk cuts short are dropped
Decode(bs) ==
    LET Need(v) == IF v < 224 THEN 2 ELSE IF v < 240 THEN 3 ELSE 4
        \* the range of the k-th byte after a leading byte v
        Lo(v, k) == IF k = 1 /\ v = 224 THEN 160
                    ELSE IF k = 1 /\ v = 240 THEN 144 ELSE 128
        Hi(v, k) == IF k = 1 /\ v = 237 THEN 159
                    ELSE IF k = 1 /\ v = 244 THEN 143 ELSE 191
        Follows(i, v, k) ==
            /\ Len(bs[i + k]) = 2
            /\ ByteVal(bs[i + k]) \in Lo(v, k)..Hi(v, k)
        Lead(v) == IF v < 224 THEN v - 192 ELSE IF v < 240 THEN v - 224
                   ELSE v - 240
        RECURSIVE code(_, _, _, _)
        code(i, k, n, acc) ==
            IF k > n THEN acc
            ELSE code(i, k + 1, n, acc * 64 + (ByteVal(bs[i + k]) - 128))
        RECURSIVE loop(_, _)
        RECURSIVE seq(_, _, _, _)
        \* the bytes after the leading byte at i, the k-th being looked at
        seq(i, v, k, acc) ==
            IF k = Need(v)
            THEN loop(i + k,
                      Append(acc, UName(code(i, 1, k - 1, Lead(v)))))
            ELSE IF i + k > Len(bs) THEN acc
            ELSE IF ~Follows(i, v, k) THEN loop(i + k, acc)
            ELSE seq(i, v, k + 1, acc)
        loop(i, acc) ==
            IF i > Len(bs) THEN acc
            ELSE IF Len(bs[i]) = 1 THEN loop(i + 1, Append(acc, bs[i]))
            ELSE IF ByteVal(bs[i]) < 194 \/ ByteVal(bs[i]) > 244
                 THEN loop(i + 1, acc)
            ELSE seq(i, ByteVal(bs[i]), 1, acc)
    IN loop(1, <<>>)

\* lines 38-43: `for ln in lines`: each line is appended with its newline;
\* the function returns at the first line that holds one of the patterns,
\* leaving the lines after it
AppendUntilMatch(collected, lines, patterns) ==
    LET RECURSIVE loop(_, _)
        loop(j, acc) ==
            IF j > Len(lines) THEN [out |-> acc, matched |-> FALSE]
            ELSE LET ln == Append(lines[j], NL) IN
                 IF \E q \in 1..Len(patterns) : Contains(ln, patterns[q])
                 THEN [out |-> Append(acc, ln), matched |-> TRUE]
                 ELSE loop(j + 1, Append(acc, ln))
    IN loop(1, collected)

\* run_one, lines 58, 71, 76, 78: the patterns of the four _read_until calls
PatternsOf(call) ==
    CASE call = 1 -> <<STR_USIOK>>
      [] call = 2 -> <<STR_READYOK>>
      [] call = 3 -> <<STR_BESTMOVE>>
      [] call = 4 -> <<STR_EMPTY>>

\* os.read(fd.fileno(), 4096)
ReadSize == 4096

\* run_one, lines 57-77: the commands written before each _read_until call
\* (profile 'base' with the options of build_common)
SendsBefore(call) ==
    CASE call = 1 -> <<"usi">>
      [] call = 2 -> <<"setoption name USI_Ponder value false",
                       "setoption name Warmup.Ms value 0",
                       "setoption name ForceTerminateOnHardDeadline value true",
                       "setoption name Threads value 1",
                       "setoption name USI_Hash value 1024",
                       "setoption name MultiPV value 3",
                       "setoption name MinThinkMs value 0",
                       "setoption name SearchParams.RootBeamForceFullCount value 0",
                       "isready">>
      [] call = 3 -> <<"position startpos", "go byoyomi 2000">>
      [] call = 4 -> <<"quit">>

\* Inputs: the bytes an engine writes in answer to 'usi', to 'isready', to
\* 'go' and to 'quit'; the first has a character of three bytes in a line
Engines ==
    {\* each answer ends with its last line; the decision line starts
     \* with the word bestmove, as an engine writes it
     <<<<"i", "E3", "81", "82", "x", "\n", "u", "s", "i", "o", "k", "\n">>,
       <<"r", "e", "a", "d", "y", "o", "k", "\n">>,
       <<"i", "\n", "b", "e", "s", "t", "m", "o", "v", "e", " ", "7", "\n">>,
       <<>>>>,
     \* a line follows 'usiok', the decision comes after a blank, and
     \* the engine says goodbye
     <<<<"u", "s", "i", "o", "k", "\n", "l", "o", "g", "\n">>,
       <<"r", "e", "a", "d", "y", "o", "k", "\n">>,
       <<"a", " ", "b", "e", "s", "t", "m", "o", "v", "e", " ", "7", "\n">>,
       <<"b", "y", "e", "\n", "e", "n", "d", "\n">>>>,
     \* the last line of an answer is left without its newline until the
     \* next answer
     <<<<"u", "s", "i", "o", "k">>,
       <<"\n", "r", "e", "a", "d", "y", "o", "k", "\n">>,
       <<"b", "e", "s", "t", "m", "o", "v", "e", " ", "7">>,
       <<>>>>,
     \* the search reports an evaluation and no decision ever comes
     <<<<"u", "s", "i", "o", "k", "\n">>,
       <<"r", "e", "a", "d", "y", "o", "k", "\n">>,
       <<"i", "n", "f", "o", " ", "d", "e", "p", "t", "h", " ", "1", " ", "s", "c", "o", "r", "e", " ", "c", "p", " ", "5", "\n">>,
       <<>>>>}

\* what the engine has written once it has received the commands sent
\* before the given call
Written(engine, call) ==
    LET RECURSIVE cat(_)
        cat(c) == IF c = 0 THEN <<>> ELSE cat(c - 1) \o engine[c]
    IN cat(call)

ssIdle ==
    /\ ss_pc = "off" /\ ss_engine = <<>> /\ ss_call = 0 /\ ss_pos = 0
    /\ buf = <<>> /\ out_lines = <<>> /\ ss_sent = <<>> /\ ss_log = None
    /\ ss_returns = <<>> /\ ss_proc = "none" /\ ss_result = None

\* run_one, lines 47-56: the engine is spawned, out_lines = []
InitSession ==
    /\ ss_pc = "start"
    /\ ss_engine \in Engines
    /\ ss_call = 0
    /\ ss_pos = 0
    /\ buf = <<>>
    /\ out_lines = <<>>
    /\ ss_sent = <<>>
    /\ ss_log = None
    /\ ss_returns = <<>>
    /\ ss_proc = "running"
    /\ ss_result = None

\* run_one, lines 53-54, `send` for each command that comes before the next
\* call: the commands are written to the engine's input and the call starts;
\* or the write of one of them raises BrokenPipeError, the engine having
\* closed its input or exited. Nothing catches the exception, in run_one or
\* in main (line 110): the commands before it were written, run_one is left
\* there with no log written and nothing returned, and an engine that has
\* only closed its input goes on running.
SendCommands ==
    LET cmds == SendsBefore(ss_call + 1) IN
    \/ /\ ss_sent' = ss_sent \o cmds
       /\ ss_call' = ss_call + 1
       /\ ss_pc' = "reading"
       /\ ss_proc' = ss_proc
    \/ \E j \in 1..Len(cmds) :
          /\ ss_sent' = ss_sent \o SubSeq(cmds, 1, j - 1)
          /\ ss_call' = ss_call
          /\ ss_pc' = "raised"
          /\ ss_proc' \in {"running", "exited"}

\* run_one, line 57, and _read_until, lines 25-26: 'usi' is sent and the
\* first call starts with an empty buf
StartSession ==
    /\ ss_pc = "start"
    /\ buf' = <<>>
    /\ UNCHANGED <<ss_engine, ss_pos, out_lines, ss_log>>
    /\ UNCHANGED <<ss_returns, ss_result>>
    /\ UNCHANGED notSs
    /\ SendCommands

\* the return of a _read_until call: its buf is gone; run_one goes on, to the
\* commands and the start (lines 25-26) of the next call, or to line 79 after
\* the last one
EndCall ==
    /\ buf' = <<>>
    /\ IF ss_call < 4
       THEN SendCommands
       ELSE /\ ss_call' = ss_call
            /\ ss_sent' = ss_sent
            /\ ss_pc' = "closing"
            /\ ss_proc' = ss_proc

\* _read_until, lines 27-44: one pass of the loop in which select reports
\* data: os.read returns some of the bytes the engine has written and the
\* chunk is decoded by itself. A chunk that decodes to no character ends
\* the call as the end of the output does (line 32), and it returns False;
\* otherwise the complete lines of buf are appended, and the call returns
\* True at a match
ReadChunk ==
    /\ ss_pc = "reading"
    /\ UNCHANGED <<ss_engine, ss_log, ss_result>>
    /\ UNCHANGED notSs
    /\ LET avail == Len(Written(ss_engine, ss_call)) - ss_pos IN
       \E n \in 1..Min2(ReadSize, avail) :
          LET chunk == Decode(SubSeq(Written(ss_engine, ss_call),
                                     ss_pos + 1, ss_pos + n))
              sp == SplitLines(buf \o chunk)
              r == AppendUntilMatch(out_lines, sp.lines, PatternsOf(ss_call))
          IN /\ ss_pos' = ss_pos + n
             /\ IF chunk = <<>>
                THEN /\ out_lines' = out_lines
                     /\ ss_returns' = Append(ss_returns, FALSE)
                     /\ EndCall
                ELSE IF r.matched
                THEN /\ out_lines' = r.out
                     /\ ss_returns' = Append(ss_returns, TRUE)
                     /\ EndCall
                ELSE /\ out_lines' = r.out
                     /\ buf' = sp.rest
                     /\ UNCHANGED <<ss_call, ss_sent, ss_pc, ss_returns>>
                     /\ UNCHANGED ss_proc

\* _read_until, lines 27 and 44: the deadline has passed, the call returns
\* False
Deadline ==
    /\ ss_pc = "reading"
    /\ ss_returns' = Append(ss_returns, FALSE)
    /\ UNCHANGED <<ss_engine, ss_pos, out_lines, ss_log, ss_result>>
    /\ UNCHANGED notSs
    /\ EndCall

\* _read_until, lines 31-33 and 44: os.read returns no byte: the engine has
\* closed its output (after 'quit', with all it wrote read); the call
\* returns False. The end of the output says nothing of the process, which
\* may go on running: lines 79-82 wait for it and kill it.
EndOfFile ==
    /\ ss_pc = "reading"
    /\ ss_call = 4
    /\ ss_pos = Len(Written(ss_engine, 4))
    /\ ss_returns' = Append(ss_returns, FALSE)
    /\ UNCHANGED <<ss_engine, ss_pos, out_lines, ss_log, ss_result>>
    /\ UNCHANGED notSs
    /\ EndCall

\* \d of a str pattern: the decimal digits of Unicode
IsDigit(c) ==
    IF Len(c) = 1
    THEN c \in {"0", "1", "2", "3", "4", "5", "6", "7", "8", "9"}
    ELSE InRanges(CodePoint(c), DigitRanges)
\* the value int() gives a decimal digit
DigitVal(c) ==
    IF Len(c) = 1
    THEN CASE c = "0" -> 0 [] c = "1" -> 1 [] c = "2" -> 2 [] c = "3" -> 3
           [] c = "4" -> 4 [] c = "5" -> 5 [] c = "6" -> 6 [] c = "7" -> 7
           [] c = "8" -> 8 [] c = "9" -> 9
    ELSE LET r == CHOOSE r \in DigitRanges :
                      r[1] <= CodePoint(c) /\ CodePoint(c) <= r[2]
         IN (CodePoint(c) - r[1]) % 10
\* int() of a run of digits
ParseDigits(ds) ==
    LET RECURSIVE loop(_, _)
        loop(i, acc) ==
            IF i > Len(ds) THEN acc ELSE loop(i + 1, acc * 10 + DigitVal(ds[i]))
    IN loop(1, 0)
\* the end of the longest run of digits of s that starts at i (i - 1 when
\* s[i] is no digit): what \d+ takes
DigitsEnd(s, i) ==
    LET E == {e \in i..Len(s) : \A j \in i..e : IsDigit(s[j])}
    IN IF E = {} THEN i - 1 ELSE CHOOSE e \in E : \A f \in E : f <= e

STR_INFO_DEPTH == <<"i", "n", "f", "o", " ", "d", "e", "p", "t", "h", " ">>
STR_SCORE_CP == <<"s", "c", "o", "r", "e", " ", "c", "p", " ">>

\* re.search(r'info depth (\d+).*?score cp ([+-]?\d+)', ln): None, or the
\* two groups as integers. The match starts at the leftmost 'info depth '
\* with a digit after it for which a 'score cp ' with a number after it comes
\* later on the same line; the first such 'score cp ' is taken.
SearchInfoCp(ln) ==
    LET numAt(k) ==      \* [+-]?\d+ at k: the place of its first digit, or 0
            IF k <= Len(ln) /\ ln[k] \in {"+", "-"}
            THEN IF k + 1 <= Len(ln) /\ IsDigit(ln[k + 1]) THEN k + 1 ELSE 0
            ELSE IF k <= Len(ln) /\ IsDigit(ln[k]) THEN k ELSE 0
        scoresAfter(e) ==
            {j \in (e + 1)..Len(ln) :
                /\ MatchAt(ln, STR_SCORE_CP, j)
                /\ numAt(j + Len(STR_SCORE_CP)) # 0
                /\ \A h \in (e + 1)..(j - 1) : ln[h] # NL}
        starts ==
            {i \in 1..Len(ln) :
                /\ MatchAt(ln, STR_INFO_DEPTH, i)
                /\ DigitsEnd(ln, i + Len(STR_INFO_DEPTH)) >= i + Len(STR_INFO_DEPTH)
                /\ scoresAfter(DigitsEnd(ln, i + Len(STR_INFO_DEPTH))) # {}}
    IN IF starts = {} THEN None
       ELSE LET i == MinOf(starts)
                d1 == i + Len(STR_INFO_DEPTH)
                dEnd == DigitsEnd(ln, d1)
                j == MinOf(scoresAfter(dEnd))
                k == j + Len(STR_SCORE_CP)
                n1 == numAt(k)
                mag == ParseDigits(SubSeq(ln, n1, DigitsEnd(ln, n1)))
            IN Some(<<ParseDigits(SubSeq(ln, d1, dEnd)),
                      IF ln[k] = "-" THEN -mag ELSE mag>>)

\* run_one, line 91: `if d>=last_depth`
KeepDeeper(d, last_depth) == d >= last_depth

\* run_one, lines 86-93: (last_cp, last_depth) over the collected lines
parse_last_cp(lines) ==
    LET RECURSIVE loop(_, _, _)
        loop(i, last_cp, last_depth) ==
            IF i > Len(lines) THEN <<last_cp, last_depth>>
            ELSE LET m == SearchInfoCp(lines[i]) IN
                 IF ~IsNone(m) /\ KeepDeeper(Val(m)[1], last_depth)
                 THEN loop(i + 1, Some(Val(m)[2]), Val(m)[1])
                 ELSE loop(i + 1, last_cp, last_depth)
    IN loop(1, None, -1)

\* run_one, lines 79-93: the engine is waited for, and killed when it has not
\* exited within the 1.5 s; out_lines is written to the log file and the
\* deepest evaluation of the collected lines is returned
FinishSession ==
    /\ ss_pc = "closing"
    /\ \E exits \in BOOLEAN :
          ss_proc' = IF exits THEN "exited" ELSE "killed"
    /\ ss_log' = Some(out_lines)
    /\ ss_result' = Some(parse_last_cp(out_lines))
    /\ ss_pc' = "done"
    /\ UNCHANGED <<ss_engine, ss_call, ss_pos, buf, out_lines, ss_sent>>
    /\ UNCHANGED ss_returns
    /\ UNCHANGED notSs

NextSession ==
    StartSession \/ ReadChunk \/ Deadline \/ EndOfFile \/ FinishSession

\* the complete lines (each with its newline) of a piece of engine output
CompleteLines(s) ==
    LET sp == SplitLines(s) IN [j \in 1..Len(sp.lines) |-> Append(sp.lines[j], NL)]
\* what the driver has read from the engine, as the characters the bytes
\* stand for
BytesRead == Decode(SubSeq(Written(ss_engine, 4), 1, ss_pos))
\* the ASCII characters of a line
Ascii(ln) == SelectSeq(ln, LAMBDA c : Len(c) = 1)

\* C12: when the decision line has not come before the deadline of the wait
\* for it (the third _read_until call returns False), the session yields a
\* null score. run_one does not keep this: the score of the deepest
\* evaluation read so far is returned.
C12_NullScoreOnTimeout ==
    (ss_pc = "done" /\ ss_returns[3] = FALSE) => IsNone(Val(ss_result)[1])

\* What run_one does on that path: it goes on to 'quit' and the last call
\* and returns the pair parsed from the lines collected, as on any path
TimeoutReturnsParsedLines ==
    (ss_pc = "done" /\ ss_returns[3] = FALSE)
        => /\ Len(ss_returns) = 4
           /\ ss_sent[Len(ss_sent)] = "quit"
           /\ ss_result = Some(parse_last_cp(out_lines))

\* run_one, lines 78-82: a session of run_one that has returned has an
\* engine that exited or was killed
RunOneStopsEngine ==
    ss_pc = "done" => ss_proc \in {"exited", "killed"}

\* a session of run_one that a failed write has ended has written no log
\* and returned nothing, and has not killed its engine
RaiseLeavesNothing ==
    ss_pc = "raised" =>
        /\ IsNone(ss_log) /\ IsNone(ss_result)
        /\ ss_proc \in {"running", "exited"}

\* the write of 'quit' has raised after the wait for the decision ended at
\* its deadline, and the engine, its input closed, is left running
QuitRaisedAfterTimeout ==
    /\ ss_pc = "raised" /\ ss_call = 3 /\ ss_returns[3] = FALSE
    /\ ss_proc = "running"

\* C9: over a whole session, however the output is split into chunks and
\* however each _read_until call ends, the collected lines are exactly the
\* complete lines the driver has read, each once and in the engine's order.
C9_NoLineDiscarded ==
    ss_pc \in {"reading", "closing", "done"} =>
        out_lines = CompleteLines(BytesRead)

\* C10: every entry of the collected lines is one complete line of the
\* engine's output, from the start of a line up to its newline; no fragment
\* of a line is delivered as a line.
C10_OnlyCompleteLines ==
    \A i \in 1..Len(out_lines) :
        \E k \in 1..Len(CompleteLines(Decode(Written(ss_engine, 4)))) :
            out_lines[i] = CompleteLines(Decode(Written(ss_engine, 4)))[k]

\* What holds of the collected lines in every case: each entry ends with
\* the only newline it holds and is the end of a complete line the driver
\* has read, but for the characters of more than one byte, which a read
\* that cuts them loses.
IsSuffix(a, b) == Len(a) <= Len(b) /\ SubSeq(b, Len(b) - Len(a) + 1, Len(b)) = a
CollectedAreLineEnds ==
    \A i \in 1..Len(out_lines) :
        /\ out_lines[i][Len(out_lines[i])] = NL
        /\ \A j \in 1..(Len(out_lines[i]) - 1) : out_lines[i][j] # NL
        /\ \E k \in 1..Len(CompleteLines(BytesRead)) :
              IsSuffix(Ascii(out_lines[i]),
                       Ascii(CompleteLines(BytesRead)[k]))

(***************************************************************************)
(* A/B test driver: run_usi_ab_test.py                                     *)
(***************************************************************************)
\* A line read from the engine is kept as what run_engine takes from it:
\*   kind "readyok": the line starts with 'readyok';
\*   kind "info": it starts with 'info depth ' and holds 'score cp N' or
\*     'score mate N' (score is the pair);
\*   kind "bestmove": BESTMOVE_LINE_RE (^bestmove ) matches; move is the
\*     second blank-separated word, "" when the line has no second word;
\*   kind "other": any other line.
\* The diagnostics taken from the lines (depth, seldepth, nodes, nps, the
\* aspiration and finalize counters) are left out.
LineOther == [kind |-> "other", move |-> "", score |-> None]
LineReadyok == [kind |-> "readyok", move |-> "", score |-> None]
LineInfoCp == [kind |-> "info", move |-> "", score |-> Some(<<"cp", 50>>)]
LineInfoMate == [kind |-> "info", move |-> "", score |-> Some(<<"mate", -2>>)]
LineBest8g8f == [kind |-> "bestmove", move |-> "8g8f", score |-> None]
LineBest7g7f == [kind |-> "bestmove", move |-> "7g7f", score |-> None]
LineBestNoMove == [kind |-> "bestmove", move |-> "", score |-> None]
EngineLines ==
    {LineOther, LineReadyok, LineInfoCp, LineInfoMate, LineBest8g8f,
     LineBest7g7f, LineBestNoMove}

\* lines 141-149, 179, 204: a cp score as it is, a mate score as 30000 with
\* its sign
ScoreValue(info) ==
    IF info[1] = "cp" THEN info[2] ELSE IF info[2] > 0 THEN 30000 ELSE -30000

START_MOVES == "3i4h 3c3d 3g3f 4a3b 2i3g 8c8d 4g4f 8d8e 2g2f 7a7b"
EXTRA_POST_MOVES == "8e8f"

\* the values an option takes
IntV(n) == [bool |-> FALSE, v |-> n]
BoolV(b) == [bool |-> TRUE, v |-> b]

\* str.lower, for the letters A to Z
Lower(s) ==
    LET Upper == "ABCDEFGHIJKLMNOPQRSTUVWXYZ"
        Small == "abcdefghijklmnopqrstuvwxyz"
        low(c) == IF \E k \in 1..26 : SubSeq(Upper, k, k) = c
                  THEN LET k == CHOOSE k \in 1..26 : SubSeq(Upper, k, k) = c
                       IN SubSeq(Small, k, k)
                  ELSE c
        RECURSIVE loop(_)
        loop(i) == IF i > Len(s) THEN ""
                   ELSE low(SubSeq(s, i, i)) \o loop(i + 1)
    IN loop(1)

\* build_option_sets, lines 237-332: the options of a set, in the order of
\* the dict; None for `raise ValueError(set_kind)` of line 332
build_option_sets(threads, warmup, set_kind) ==
    LET base == <<<<"Threads", IntV(threads)>>, <<"MultiPV", IntV(2)>>>>
                \o (IF warmup
                    THEN <<<<"Warmup.Ms", IntV(300)>>,
                           <<"Warmup.PrevMoves", IntV(4)>>>>
                    ELSE <<>>)
        finalize == <<<<"FinalizeSanity.SwitchMarginCp", IntV(30)>>,
                      <<"FinalizeSanity.BudgetMs", IntV(10)>>,
                      <<"FinalizeSanity.OppSEE_MinCp", IntV(100)>>>>
        root == <<<<"RootSeeGate", BoolV(TRUE)>>,
                  <<"RootSeeGate.XSEE", IntV(100)>>,
                  <<"PostVerify", BoolV(TRUE)>>,
                  <<"PostVerify.YDrop", IntV(300)>>>>
        gate == <<<<"RootSeeGate", BoolV(TRUE)>>,
                  <<"RootSeeGate.XSEE", IntV(100)>>>>
        lite(budget) ==
            <<<<"FinalizeSanity.SwitchMarginCp", IntV(35)>>,
              <<"FinalizeSanity.OppSEE_MinCp", IntV(120)>>,
              <<"FinalizeSanity.BudgetMs", IntV(budget)>>>>
    IN CASE set_kind = "baseline" -> Some(base)
         [] set_kind = "finalize" -> Some(base \o finalize)
         [] set_kind = "root" -> Some(base \o root)
         [] set_kind = "both" -> Some(base \o finalize \o root)
         [] set_kind = "balanced" ->
                Some(base \o gate
                     \o <<<<"PostVerify", BoolV(TRUE)>>,
                           <<"PostVerify.YDrop", IntV(200)>>,
                           <<"FinalizeSanity.SwitchMarginCp", IntV(30)>>,
                           <<"FinalizeSanity.OppSEE_MinCp", IntV(100)>>,
                           <<"FinalizeSanity.BudgetMs",
                             IntV(IF threads > 1 THEN 10 ELSE 5)>>>>)
         [] set_kind = "perf" ->
                Some(base \o root
                     \o <<<<"FinalizeSanity.SwitchMarginCp", IntV(40)>>,
                           <<"FinalizeSanity.OppSEE_MinCp", IntV(150)>>,
                           <<"FinalizeSanity.BudgetMs",
                             IntV(IF threads > 1 THEN 8 ELSE 4)>>>>)
         [] set_kind \notin {"baseline", "finalize", "root", "both",
                             "balanced", "perf"}
            /\ Lower(set_kind) = "seta" ->
                Some(base \o gate \o <<<<"PostVerify", BoolV(FALSE)>>>>
                     \o lite(IF threads = 1 THEN 4 ELSE 8))
         [] set_kind \notin {"baseline", "finalize", "root", "both",
                             "balanced", "perf"}
            /\ Lower(set_kind) = "setb" ->
                Some(base \o root \o lite(IF threads = 1 THEN 4 ELSE 8))
         [] OTHER -> None

\* str of a number that is not negative
Str(n) ==
    LET Digit == <<"0", "1", "2", "3", "4", "5", "6", "7", "8", "9">>
        RECURSIVE loop(_)
        loop(m) == IF m < 10 THEN Digit[m + 1]
                   ELSE loop(m \div 10) \o Digit[(m % 10) + 1]
    IN loop(n)

\* run_engine, lines 60-67: the commands that set the options, a truth
\* value as true or false
OptionCommands(options) ==
    [j \in 1..Len(options) |->
        "setoption name " \o options[j][1] \o " value "
            \o (IF options[j][2].bool
                THEN (IF options[j][2].v THEN "true" ELSE "false")
                ELSE Str(options[j][2].v))]

\* main, lines 385-408, 419-421: the arguments that bear on the flow;
\* threads is the pair of --threads, the sets are those --sets names: the
\* defaults; one set, twice with one thread; and a set that
\* build_option_sets does not know after one of another spelling
ABRuns ==
    {[threads |-> <<1, 8>>, warmup |-> TRUE,
      sets |-> <<"baseline", "finalize", "root", "both">>],
     [threads |-> <<1, 1>>, warmup |-> FALSE, sets |-> <<"baseline">>],
     [threads |-> <<8, 1>>, warmup |-> TRUE, sets |-> <<"setA", "fast">>]}
ABArgs ==
    {[trials |-> t, eval_best_reply |-> e, strict_fixed |-> f,
      threads |-> r.threads, warmup |-> r.warmup, sets |-> r.sets] :
        t \in 1..MaxTrials, e \in BOOLEAN, f \in BOOLEAN, r \in ABRuns}

\* main, lines 426-428, with the one position of the default moves list:
\* the groups of trials, in the order of the loops
TrialGroups(args) ==
    [k \in 1..(Len(args.threads) * Len(args.sets)) |->
        [th |-> args.threads[((k - 1) \div Len(args.sets)) + 1],
         kind |-> args.sets[((k - 1) % Len(args.sets)) + 1]]]

\* main, line 431 with no override: the options of the g-th group
OptionsOf(args, g) ==
    build_option_sets(TrialGroups(args)[g].th, args.warmup,
                      TrialGroups(args)[g].kind)
\* what is at the engine path
EngineFiles == {"executable", "missing", "not executable"}

NoRecord ==
    [error |-> None, bestmove |-> None, final_score |-> None,
     postdrop_score |-> None, postbest_score |-> None]

abIdle ==
    /\ ab_pc = "off" /\ ab_file = "" /\ ab_args = <<>> /\ ab_group = 0
    /\ ab_i = 0
    /\ ab_results = <<>> /\ ab_proc = "none" /\ ab_sent = <<>>
    /\ ab_events = <<>> /\ ab_nread = 0 /\ ab_bestmove = None
    /\ ab_last_info = None /\ ab_final = None /\ ab_postdrop = None
    /\ ab_postbest = None /\ ab_ended = None

\* main, lines 384-408: the arguments are parsed
InitAB ==
    /\ ab_pc = "main"
    /\ ab_file \in EngineFiles
    /\ ab_args \in ABArgs
    /\ ab_group = 0
    /\ ab_i = 0
    /\ ab_results = <<>>
    /\ ab_proc = "none"
    /\ ab_sent = <<>>
    /\ ab_events = <<>>
    /\ ab_nread = 0
    /\ ab_bestmove = None
    /\ ab_last_info = None
    /\ ab_final = None
    /\ ab_postdrop = None
    /\ ab_postbest = None
    /\ ab_ended = None

abSession ==
    <<ab_proc, ab_sent, ab_events, ab_nread, ab_bestmove, ab_last_info,
      ab_final, ab_postdrop, ab_postbest>>

\* main, lines 429-431, for the g-th pass of the loops: the records of the
\* group are empty and its options are built; the ValueError of a set that
\* build_option_sets does not know is caught by nothing and ends the run
StartGroup(g) ==
    /\ ab_group' = g
    /\ ab_i' = 0
    /\ ab_results' = <<>>
    /\ ab_pc' = IF IsNone(OptionsOf(ab_args, g)) THEN "raised ValueError"
                ELSE "trials"

\* main, lines 410-431: an engine path at which nothing exists ends the run
\* with exit status 2; otherwise the first group starts
CheckEngine ==
    /\ ab_pc = "main"
    /\ IF ab_file = "missing"
          THEN /\ ab_pc' = "exit 2"
               /\ UNCHANGED <<ab_group, ab_i, ab_results>>
          ELSE StartGroup(1)
    /\ UNCHANGED <<ab_file, ab_args, ab_ended>>
    /\ UNCHANGED abSession
    /\ UNCHANGED notAb

\* main, lines 468-474: `except Exception` turns what run_engine raises into
\* the record of the trial, and the loop goes on
AfterRaise == "trials"

\* run_engine raises exc; main, lines 468-474, records it
Raise(exc) ==
    /\ ab_ended' = Some(<<"raised", exc>>)
    /\ ab_results' = Append(ab_results, [NoRecord EXCEPT !.error = Some(exc)])
    /\ ab_i' = ab_i + 1
    /\ ab_pc' = AfterRaise

\* run_engine, lines 52-55, `send` for the commands that take the session
\* from sent, events to nxt. Each is written to the engine's input and
\* the session is at nxt; or the write of one of them raises
\* BrokenPipeError, the engine having closed its input or exited. The
\* commands before it were written; run_engine is left by the exception with
\* no wait and no kill, so that an engine that has only closed its input
\* goes on running, and main records the error. Of 'quit' alone the
\* exception is caught (lines 208-211): the command is not written and
\* run_engine goes on to the wait for the exit.
Deliver(sent, events, nxt) ==
    LET cmds == SubSeq(nxt.sent, Len(sent) + 1, Len(nxt.sent))
        evs == SubSeq(nxt.events, Len(events) + 1, Len(nxt.events))
    IN \/ /\ ab_sent' = nxt.sent
          /\ ab_events' = nxt.events
          /\ ab_pc' = nxt.pc
          /\ ab_proc' = "running"
          /\ UNCHANGED <<ab_i, ab_results>>
          /\ ab_ended' = None
       \/ IF nxt.pc = "closing"
          THEN /\ ab_sent' = sent
               /\ ab_events' = events
               /\ ab_pc' = "closing"
               /\ ab_proc' = "running"
               /\ UNCHANGED <<ab_i, ab_results>>
               /\ ab_ended' = None
          ELSE \E j \in 1..Len(cmds) :
                  /\ ab_sent' = sent \o SubSeq(cmds, 1, j - 1)
                  /\ ab_events' = events \o SubSeq(evs, 1, j - 1)
                  /\ ab_proc' \in {"running", "exited"}
                  /\ Raise("BrokenPipeError")

\* run_engine, lines 43-50, for an engine file that cannot be executed:
\* Popen raises PermissionError
SpawnFails ==
    /\ ab_pc = "trials" /\ ab_i < ab_args.trials
    /\ ab_file = "not executable"
    /\ Raise("PermissionError")
    /\ ab_proc' = "none"
    /\ ab_sent' = <<>>
    /\ ab_events' = <<>>
    /\ ab_nread' = 0
    /\ ab_bestmove' = None /\ ab_last_info' = None /\ ab_final' = None
    /\ ab_postdrop' = None /\ ab_postbest' = None
    /\ UNCHANGED <<ab_file, ab_args, ab_group>>
    /\ UNCHANGED notAb

\* run_engine, lines 43-82: the engine is spawned; 'usi', the options and
\* 'isready' are sent, and the wait for 'readyok' starts
Spawn ==
    /\ ab_pc = "trials" /\ ab_i < ab_args.trials
    /\ ab_file = "executable"
    /\ Deliver(<<>>, <<>>,
               [pc |-> "handshake",
                sent |-> <<"usi">>
                    \o OptionCommands(Val(OptionsOf(ab_args, ab_group)))
                    \o <<"isready">>,
                events |-> <<"usi">>
                    \o [j \in 1..Len(Val(OptionsOf(ab_args, ab_group)))
                            |-> "setoption"]
                    \o <<"isready", "await readyok">>])
    /\ ab_nread' = 0
    /\ ab_bestmove' = None /\ ab_last_info' = None /\ ab_final' = None
    /\ ab_postdrop' = None /\ ab_postbest' = None
    /\ UNCHANGED <<ab_file, ab_args, ab_group>>
    /\ UNCHANGED notAb

\* run_engine, lines 84-99: a line is read while 'readyok' is awaited; at
\* 'readyok' the game, the position and the search are sent and the wait for
\* the decision starts
ReadHandshake ==
    /\ ab_pc = "handshake" /\ ab_nread < MaxReads
    /\ \E line \in EngineLines :
          /\ ab_nread' = ab_nread + 1
          /\ IF line.kind = "readyok"
             THEN Deliver(ab_sent, ab_events,
                     [pc |-> "go",
                      sent |-> ab_sent \o
                        <<"usinewgame", <<"position startpos moves", START_MOVES>>,
                          "go btime 0 wtime 0 byoyomi 10000">>,
                      events |-> ab_events \o
                        <<"usinewgame", "position", "go", "await bestmove">>])
             ELSE UNCHANGED <<ab_sent, ab_events, ab_pc, ab_i, ab_results,
                              ab_proc, ab_ended>>
    /\ UNCHANGED <<ab_file, ab_args, ab_group, ab_bestmove,
                   ab_last_info, ab_final, ab_postdrop, ab_postbest>>
    /\ UNCHANGED notAb

\* run_engine, lines 85-87 and 105-107: the time allowed for the handshake,
\* or for the decision, is over: the engine is killed and RuntimeError raised
Timeout ==
    /\ ab_pc \in {"handshake", "go"}
    /\ ab_proc' = "killed"
    /\ ab_events' = Append(ab_events, "kill")
    /\ Raise(IF ab_pc = "handshake" THEN "USI handshake timeout"
             ELSE "go() timeout")
    /\ UNCHANGED <<ab_file, ab_args, ab_group, ab_sent, ab_nread, ab_bestmove,
                   ab_last_info, ab_final, ab_postdrop, ab_postbest>>
    /\ UNCHANGED notAb

\* lines 208-209: send("quit") and the start of the wait for the exit
Quit(sent, events) ==
    [pc |-> "closing", sent |-> Append(sent, "quit"),
     events |-> Append(events, "quit")]
\* lines 182-185: the probe of the opponent's best reply, when asked for
ProbeBestReply(sent, events, bestmove) ==
    IF ab_args.eval_best_reply
    THEN [pc |-> "postbest",
          sent |-> sent \o <<<<"position startpos moves", START_MOVES, bestmove>>,
                             "go btime 0 wtime 0 byoyomi 2000">>,
          events |-> events \o <<"position", "go", "await bestmove">>]
    ELSE Quit(sent, events)
\* lines 160-161 with the two sends exchanged: the search of the probe would
\* start before its position is set
ProbeFixed_go_first(sent, events, bestmove) ==
    IF ab_args.strict_fixed \/ bestmove = "8g8f"
    THEN [pc |-> "postdrop",
          sent |-> sent \o <<"go btime 0 wtime 0 byoyomi 2000",
                             <<"position startpos moves", START_MOVES, bestmove,
                               EXTRA_POST_MOVES>>>>,
          events |-> events \o <<"go", "position", "await bestmove">>]
    ELSE ProbeBestReply(sent, events, bestmove)
\* lines 154-161: the probe of the fixed reply, when the decision is 8g8f or
\* --strict-fixed is given
ProbeFixed(sent, events, bestmove) ==
    IF ab_args.strict_fixed \/ bestmove = "8g8f"
    THEN [pc |-> "postdrop",
          sent |-> sent \o <<<<"position startpos moves", START_MOVES, bestmove,
                               EXTRA_POST_MOVES>>,
                             "go btime 0 wtime 0 byoyomi 2000">>,
          events |-> events \o <<"position", "go", "await bestmove">>]
    ELSE ProbeBestReply(sent, events, bestmove)

\* run_engine, lines 104-161: a line is read while the decision is awaited
\* and is not a decision line without a move
ReadGo ==
    /\ ab_pc = "go" /\ ab_nread < MaxReads
    /\ \E line \in EngineLines \ {LineBestNoMove} :
          LET info == IF line.kind = "info" THEN line.score ELSE ab_last_info
          IN /\ ab_nread' = ab_nread + 1
             \* the probes start from last_post_info, last_best_info = None
             /\ ab_last_info' = IF line.kind = "bestmove" THEN None ELSE info
             /\ IF line.kind = "bestmove"
                THEN LET nxt == ProbeFixed(ab_sent, ab_events, line.move)
                     IN /\ ab_bestmove' = Some(line.move)
                        /\ ab_final' = IF IsNone(info) THEN None
                                       ELSE Some(ScoreValue(Val(info)))
                        /\ Deliver(ab_sent, ab_events, nxt)
                ELSE UNCHANGED <<ab_bestmove, ab_final, ab_sent, ab_events, ab_pc,
                                 ab_i, ab_results, ab_proc, ab_ended>>
    /\ UNCHANGED <<ab_file, ab_args, ab_group, ab_postdrop, ab_postbest>>
    /\ UNCHANGED notAb

\* run_engine, lines 138-140: the decision line holds no move:
\* line.split()[1] raises IndexError, and nothing is done about the engine
ReadGoNoMove ==
    /\ ab_pc = "go" /\ ab_nread < MaxReads
    /\ ab_nread' = ab_nread + 1
    /\ Raise("IndexError")
    /\ UNCHANGED <<ab_file, ab_args, ab_group, ab_proc, ab_sent, ab_events,
                   ab_bestmove,
                   ab_last_info, ab_final, ab_postdrop, ab_postbest>>
    /\ UNCHANGED notAb

\* run_engine, lines 164-180: a line is read in the probe of the fixed reply
ReadPostdrop ==
    /\ ab_pc = "postdrop" /\ ab_nread < MaxReads
    /\ \E line \in EngineLines :
          LET info == IF line.kind = "info" THEN line.score ELSE ab_last_info
          IN /\ ab_nread' = ab_nread + 1
             /\ ab_last_info' = IF line.kind = "bestmove" THEN None ELSE info
             /\ IF line.kind = "bestmove"
                THEN LET nxt == ProbeBestReply(ab_sent, ab_events, Val(ab_bestmove))
                     IN /\ ab_postdrop' = IF IsNone(info) THEN None
                                          ELSE Some(ScoreValue(Val(info)))
                        /\ Deliver(ab_sent, ab_events, nxt)
                ELSE UNCHANGED <<ab_postdrop, ab_sent, ab_events, ab_pc,
                                 ab_i, ab_results, ab_proc, ab_ended>>
    /\ UNCHANGED <<ab_file, ab_args, ab_group, ab_bestmove, ab_final,
                   ab_postbest>>
    /\ UNCHANGED notAb

\* run_engine, lines 165-166: the time allowed for the probe is over: the
\* loop is left
TimeoutPostdrop ==
    /\ ab_pc = "postdrop"
    /\ Deliver(ab_sent, ab_events,
               ProbeBestReply(ab_sent, ab_events, Val(ab_bestmove)))
    /\ ab_last_info' = None
    /\ UNCHANGED <<ab_file, ab_args, ab_group, ab_nread,
                   ab_bestmove, ab_final, ab_postdrop, ab_postbest>>
    /\ UNCHANGED notAb

\* run_engine, lines 186-206: a line is read in the probe of the best reply
ReadPostbest ==
    /\ ab_pc = "postbest" /\ ab_nread < MaxReads
    /\ \E line \in EngineLines :
          LET info == IF line.kind = "info" THEN line.score ELSE ab_last_info
          IN /\ ab_nread' = ab_nread + 1
             /\ ab_last_info' = IF line.kind = "bestmove" THEN None ELSE info
             /\ IF line.kind = "bestmove"
                THEN LET nxt == Quit(ab_sent, ab_events)
                     IN /\ ab_postbest' = IF IsNone(info) THEN None
                                          ELSE Some(-ScoreValue(Val(info)))
                        /\ Deliver(ab_sent, ab_events, nxt)
                ELSE UNCHANGED <<ab_postbest, ab_sent, ab_events, ab_pc,
                                 ab_i, ab_results, ab_proc, ab_ended>>
    /\ UNCHANGED <<ab_file, ab_args, ab_group, ab_bestmove, ab_final,
                   ab_postdrop>>
    /\ UNCHANGED notAb

\* run_engine, lines 189-190: the time allowed for the probe is
\* over: the loop is left
TimeoutPostbest ==
    /\ ab_pc = "postbest"
    /\ Deliver(ab_sent, ab_events, Quit(ab_sent, ab_events))
    /\ ab_last_info' = None
    /\ UNCHANGED <<ab_file, ab_args, ab_group, ab_nread,
                   ab_bestmove, ab_final, ab_postdrop, ab_postbest>>
    /\ UNCHANGED notAb

\* run_engine, lines 212-234, and main, lines 470-478: the engine is waited
\* for 2 s and killed when it has not exited; the record of the trial is
\* returned and kept
Close ==
    /\ ab_pc = "closing"
    /\ \E exits \in BOOLEAN :
          /\ ab_proc' = IF exits THEN "exited" ELSE "killed"
          /\ ab_events' = ab_events \o
                (IF exits THEN <<"wait">> ELSE <<"wait", "kill">>)
    /\ ab_results' = Append(ab_results,
          [error |-> None, bestmove |-> ab_bestmove, final_score |-> ab_final,
           postdrop_score |-> ab_postdrop, postbest_score |-> ab_postbest])
    /\ ab_ended' = Some(<<"returned">>)
    /\ ab_i' = ab_i + 1
    /\ ab_pc' = "trials"
    /\ UNCHANGED <<ab_file, ab_args, ab_group, ab_sent, ab_nread, ab_bestmove,
                   ab_last_info, ab_final, ab_postdrop, ab_postbest>>
    /\ UNCHANGED notAb

\* main, lines 479-481 and 426-431: after the last trial of a group that is
\* not the last the records of the group are written and the next group
\* starts
NextGroup ==
    /\ ab_pc = "trials" /\ ab_i = ab_args.trials
    /\ ab_group < Len(TrialGroups(ab_args))
    /\ StartGroup(ab_group + 1)
    /\ UNCHANGED <<ab_file, ab_args, ab_ended>>
    /\ UNCHANGED abSession
    /\ UNCHANGED notAb

\* main, lines 479-497: after the last trial of the last group the records
\* and the summary are written
WriteSummary ==
    /\ ab_pc = "trials" /\ ab_i = ab_args.trials
    /\ ab_group = Len(TrialGroups(ab_args))
    /\ ab_pc' = "finished"
    /\ UNCHANGED <<ab_file, ab_args, ab_group, ab_i, ab_results, ab_ended>>
    /\ UNCHANGED abSession
    /\ UNCHANGED notAb

NextAB ==
    \/ CheckEngine \/ SpawnFails \/ Spawn \/ ReadHandshake \/ Timeout
    \/ ReadGo \/ ReadGoNoMove \/ ReadPostdrop \/ TimeoutPostdrop
    \/ ReadPostbest \/ TimeoutPostbest \/ Close \/ NextGroup
    \/ WriteSummary

\* C11: whenever a session has ended, by a return or by a raise, its engine
\* process is no longer running. run_engine does not keep this: the
\* IndexError of line 140 leaves the function with the engine running.
C11_EngineStoppedAtEnd ==
    ~IsNone(ab_ended) => ab_proc # "running"

\* What run_engine does keep: a session that returned, or that was ended by
\* one of the two timeouts, has an engine that exited or was killed. The
\* IndexError and a failed write leave the function with nothing done about
\* the engine.
EngineStoppedUnlessIndexError ==
    (/\ ~IsNone(ab_ended)
     /\ Val(ab_ended) \notin {<<"raised", "IndexError">>,
                              <<"raised", "BrokenPipeError">>})
        => ab_proc # "running"

\* a write to the engine has failed after the handshake, and the engine,
\* its input closed, is running when the session has ended
WriteFailedEngineRunning ==
    /\ ~IsNone(ab_ended) /\ Val(ab_ended) = <<"raised", "BrokenPipeError">>
    /\ ab_proc = "running"
    /\ \E i \in 1..Len(ab_events) : ab_events[i] = "await readyok"

\* the write of 'quit' has failed and the session has returned its record
QuitNotWritten ==
    /\ ~IsNone(ab_ended) /\ Val(ab_ended) = <<"returned">>
    /\ \A i \in 1..Len(ab_sent) : ab_sent[i] # "quit"

\* C20: when the engine executable is missing or cannot be executed, the run
\* aborts; the failure is never turned into the record of a session after
\* which the run goes on. main of run_usi_ab_test.py does not keep this for
\* a file that exists and cannot be executed: each trial records the error
\* and the run ends with its summary.
C20_EngineFailureAborts ==
    ab_file # "executable" => (ab_results = <<>> /\ ab_pc # "finished")

\* What main does keep: with nothing at the engine path the run ends with
\* exit status 2 before any trial.
MissingEngineExits ==
    ab_file = "missing" =>
        (ab_pc \in {"main", "exit 2"} /\ ab_results = <<>> /\ ab_proc = "none")

\* run_one, lines 57-82: what a command of run_one is in the protocol
CmdKind(cmd) ==
    CASE cmd = "usi" -> "usi"
      [] cmd = "isready" -> "isready"
      [] cmd = "position startpos" -> "position"
      [] cmd = "go byoyomi 2000" -> "go"
      [] cmd = "quit" -> "quit"
      [] OTHER -> "setoption"
\* run_one, lines 58, 71, 76, 78-80: what the driver waits for in each call;
\* the last call and p.wait are the wait for the exit
AwaitOf(call) ==
    CASE call = 1 -> "await usiok"
      [] call = 2 -> "await readyok"
      [] call = 3 -> "await bestmove"
      [] call = 4 -> "wait"
Awaits == {AwaitOf(c) : c \in 1..4}
\* the actions of the session of run_one so far: the commands written before
\* each call, the call, and the kill of line 82
RunOneEvents ==
    LET RECURSIVE upto(_)
        upto(c) ==
            IF c = 0 THEN <<>>
            ELSE upto(c - 1)
                 \o [i \in 1..Len(SendsBefore(c)) |-> CmdKind(SendsBefore(c)[i])]
                 \o <<AwaitOf(c)>>
        \* the commands written after the last call started: those before
        \* a write that raised
        sentUpto == Len(SelectSeq(upto(ss_call), LAMBDA ev : ev \notin Awaits))
        last == SubSeq(ss_sent, sentUpto + 1, Len(ss_sent))
    IN upto(ss_call) \o [i \in 1..Len(last) |-> CmdKind(last[i])]
                     \o (IF ss_proc = "killed" THEN <<"kill">> ELSE <<>>)
\* the commands written are those of the calls started and, when a write
\* has raised, the commands of the next call that come before it, no other
SentByCalls ==
    LET RECURSIVE upto(_)
        upto(c) == IF c = 0 THEN <<>> ELSE upto(c - 1) \o SendsBefore(c)
    IN /\ IF ss_pc = "raised"
          THEN \E j \in 1..Len(SendsBefore(ss_call + 1)) :
                  ss_sent = upto(ss_call) \o SubSeq(SendsBefore(ss_call + 1), 1, j - 1)
          ELSE ss_sent = upto(ss_call)
       /\ Len(ss_returns) =
             IF ss_pc \in {"closing", "done", "raised"}
             THEN ss_call ELSE Max2(ss_call - 1, 0)

\* The order of the session protocol as stated: each action with its place
ProtocolOrder ==
    <<"usi", "await usiok", "setoption", "isready", "await readyok",
      "position", "go", "await bestmove", "quit", "wait", "kill">>
Place(ev) == CHOOSE r \in 1..Len(ProtocolOrder) : ProtocolOrder[r] = ev
\* the actions are those of the stated order and come in it: each follows
\* the one of the place before, but that setoption may come any number of
\* times and that a process that exits in time is not killed
InStatedOrder(events) ==
    \A i \in 1..Len(events) :
        /\ \E r \in 1..Len(ProtocolOrder) : ProtocolOrder[r] = events[i]
        /\ IF i = 1 THEN events[i] = "usi"
           ELSE LET q == Place(events[i - 1])
                    r == Place(events[i])
                IN \/ r = q + 1
                   \/ q = Place("setoption") /\ r = q
                   \/ q = Place("await usiok") /\ r = Place("isready")

MayFollow(prev, ev, goes) ==
    CASE prev = "usi" -> ev \in {"setoption", "isready"}
      [] prev = "setoption" -> ev \in {"setoption", "isready"}
      [] prev = "isready" -> ev = "await readyok"
      [] prev = "await readyok" -> ev \in {"usinewgame", "kill"}
      [] prev = "usinewgame" -> ev = "position"
      [] prev = "position" -> ev = "go"
      [] prev = "go" -> ev = "await bestmove"
      [] prev = "await bestmove" ->
            \/ ev = "kill" /\ goes = 1
            \/ ev = "position" /\ goes < 3
            \/ ev = "quit"
            \* the write of quit has failed
            \/ ev = "wait"
      [] prev = "quit" -> ev = "wait"
      [] prev = "wait" -> ev = "kill"
      [] OTHER -> FALSE
\* the number of searches started among the first i actions
GoesUpTo(events, i) == Cardinality({j \in 1..i : events[j] = "go"})
InEngineOrder(events) ==
    \A i \in 1..Len(events) :
        IF i = 1 THEN events[i] = "usi"
        ELSE MayFollow(events[i - 1], events[i], GoesUpTo(events, i))

C14_WitnessRunOne ==
    /\ ss_pc = "done" /\ ss_proc = "killed" /\ ss_returns[3] = FALSE
    /\ Len(RunOneEvents) = Len(ss_sent) + 5

WasSent(kind) == \E i \in 1..Len(ss_sent) : CmdKind(ss_sent[i]) = kind
\* the call with the given number has returned True: a line with its
\* pattern was read before its deadline
Observed(call) == Len(ss_returns) >= call /\ ss_returns[call]

\* C30: in a session of run_one the options are written only after usiok
\* was read, position and go only after readyok was read; when the wait for
\* an acknowledgement has ended without it, no search is started.
C30_CommandsAfterAcknowledgement ==
    /\ WasSent("setoption") => Observed(1)
    /\ (WasSent("position") \/ WasSent("go")) => Observed(2)
    /\ \A c \in {1, 2} :
          (Len(ss_returns) >= c /\ ~ss_returns[c]) => ~WasSent("go")

\* What does hold: the options are written after the wait for usiok has
\* ended, position and go after the wait for readyok has ended, with or
\* without the acknowledgement.
CommandsAfterWaitEnded ==
    /\ WasSent("setoption") => Len(ss_returns) >= 1
    /\ (WasSent("position") \/ WasSent("go")) => Len(ss_returns) >= 2

\* the wait for readyok ended at its deadline with no line holding readyok
\* read, and the search was started
SearchWithoutReadyok ==
    /\ Len(ss_returns) >= 2 /\ ~ss_returns[2]
    /\ \A i \in 1..Len(out_lines) : ~Contains(out_lines[i], STR_READYOK)
    /\ WasSent("position") /\ WasSent("go")

(***************************************************************************)
(* run_eval_targets.py, run_eval_targets_params.py: what run_one returns   *)
(* for given collected lines (lines 85-93, resp. 77-85)                    *)
(***************************************************************************)
MaxLines == 3

\* Inputs: lines of an engine, each with what it reports: eval says that the
\* line is an evaluation line, one that reports a depth and a score, in
\* centipawns or as a mate (mate says which; the score of a mate in n > 0 is
\* 100000); a decision line is none
ReportLines ==
    {
     \* info depth 2 score cp 10
     [text |-> <<"i", "n", "f", "o", " ", "d", "e", "p", "t", "h", " ", "2", " ", "s", "c", "o", "r", "e", " ", "c", "p", " ", "1", "0", "\n">>,
      eval |-> TRUE, mate |-> FALSE, depth |-> 2, cp |-> 10],
     \* info depth 2 seldepth 4 score cp -7
     [text |-> <<"i", "n", "f", "o", " ", "d", "e", "p", "t", "h", " ", "2", " ", "s", "e", "l", "d", "e", "p", "t", "h", " ", "4", " ", "s", "c", "o", "r", "e", " ", "c", "p", " ", "-", "7", "\n">>,
      eval |-> TRUE, mate |-> FALSE, depth |-> 2, cp |-> -7],
     \* info depth 1 score cp 30
     [text |-> <<"i", "n", "f", "o", " ", "d", "e", "p", "t", "h", " ", "1", " ", "s", "c", "o", "r", "e", " ", "c", "p", " ", "3", "0", "\n">>,
      eval |-> TRUE, mate |-> FALSE, depth |-> 1, cp |-> 30],
     \* info depth 10 score cp +4
     [text |-> <<"i", "n", "f", "o", " ", "d", "e", "p", "t", "h", " ", "1", "0", " ", "s", "c", "o", "r", "e", " ", "c", "p", " ", "+", "4", "\n">>,
      eval |-> TRUE, mate |-> FALSE, depth |-> 10, cp |-> 4],
     \* info depth 12 score mate 2
     [text |-> <<"i", "n", "f", "o", " ", "d", "e", "p", "t", "h", " ", "1", "2", " ", "s", "c", "o", "r", "e", " ", "m", "a", "t", "e", " ", "2", "\n">>,
      eval |-> TRUE, mate |-> TRUE, depth |-> 12, cp |-> 100000],
     \* bestmove 7g7f
     [text |-> <<"b", "e", "s", "t", "m", "o", "v", "e", " ", "7", "g", "7", "f", "\n">>,
      eval |-> FALSE, mate |-> FALSE, depth |-> 0, cp |-> 0]
    }

prIdle == pr_pc = "off" /\ pr_lines = <<>> /\ pr_result = None

InitParse ==
    /\ pr_pc = "collected"
    /\ pr_lines \in SeqsUpTo(ReportLines, MaxLines)
    /\ pr_result = None

\* run_one, lines 85-93: last_cp, last_depth of the collected lines
ParseLastCp ==
    /\ pr_pc = "collected"
    /\ pr_result' = Some(parse_last_cp([i \in 1..Len(pr_lines) |-> pr_lines[i].text]))
    /\ pr_pc' = "parsed"
    /\ UNCHANGED pr_lines
    /\ UNCHANGED notPr

NextParse == ParseLastCp

\* the evaluation lines, and those of them that report a score in
\* centipawns
EvalLines == {i \in 1..Len(pr_lines) : pr_lines[i].eval}
CpLines == {i \in EvalLines : ~pr_lines[i].mate}
\* line i is the latest of the lines of L of the greatest depth
DeepestLatestOf(L, i) ==
    \A j \in L :
        \/ pr_lines[j].depth < pr_lines[i].depth
        \/ pr_lines[j].depth = pr_lines[i].depth /\ j <= i
DeepestLatest(i) == DeepestLatestOf(EvalLines, i)

\* C13: for every sequence of lines, the result holds the depth and the
\* score of the evaluation line of the greatest depth, of the latest one
\* when several lines report that depth, and a null score when no line
\* reports an evaluation.
C13_DeepestLatestWins ==
    pr_pc = "parsed" =>
        IF EvalLines = {}
        THEN Val(pr_result) = <<None, -1>>
        ELSE \E i \in EvalLines :
                /\ DeepestLatest(i)
                /\ Val(pr_result) = <<Some(pr_lines[i].cp), pr_lines[i].depth>>

\* What run_one keeps: the pattern of line 88 asks for 'score cp', so that
\* the result is that of the latest line of the greatest depth among the
\* lines that report centipawns, and (None, -1) when there is none; a mate
\* report changes nothing, whatever its depth.
DeepestLatestCpWins ==
    pr_pc = "parsed" =>
        IF CpLines = {}
        THEN Val(pr_result) = <<None, -1>>
        ELSE \E i \in CpLines :
                /\ DeepestLatestOf(CpLines, i)
                /\ Val(pr_result) = <<Some(pr_lines[i].cp), pr_lines[i].depth>>

\* two lines report the greatest depth with different scores, and a
\* shallower line comes after them
LaterOfEqualDepthsReached ==
    /\ pr_pc = "parsed"
    /\ \E i, j, k \in EvalLines :
          /\ i < j /\ j < k
          /\ pr_lines[i].depth = pr_lines[j].depth
          /\ pr_lines[i].cp # pr_lines[j].cp
          /\ pr_lines[k].depth < pr_lines[j].depth
          /\ Val(pr_result) = <<Some(pr_lines[j].cp), pr_lines[j].depth>>
\* a mate is reported at depth 12 after a score at depth 10, and the result
\* is that of depth 10
MateReportNotKept ==
    /\ pr_pc = "parsed" /\ Len(pr_lines) = 2
    /\ pr_lines[1].depth = 10 /\ pr_lines[2].mate
    /\ Val(pr_result) = <<Some(4), 10>>
\* the only evaluation line is a mate report, and the score is null
MateOnlyNullScore ==
    /\ pr_pc = "parsed" /\ EvalLines # {} /\ CpLines = {}
    /\ Val(pr_result) = <<None, -1>>

\* no line reports an evaluation, and the score is null
NullScoreReached ==
    /\ pr_pc = "parsed" /\ pr_lines # <<>> /\ EvalLines = {}
    /\ IsNone(Val(pr_result)[1])

(***************************************************************************)
(* extract_eval_spikes.py: parse_log; make_targets_from_logs.py:           *)
(* parse_bestmoves_with_positions                                          *)
(***************************************************************************)
MaxTranscript == 4
MATE_CP == 100000
\* line 75: the position line is looked for in range(i + 1, min(i + 80, n))
POS_WINDOW == 80

\* A line of a transcript is kept as what the patterns take from it:
\*   kind "info": INFO_RE matches; score is (cp | mate, value) and depth what
\*     info\s+depth\s+(\d+) finds, if anything;
\*   kind "bestmove": INFO_RE does not match and BESTMOVE_RE does; move is
\*     its group;
\*   kind "position": neither matches and POS_LINE_RE does;
\*   kind "other": none of the three matches.
\* Of a line of any kind, pos says that POS_LINE_RE matches it (line 76 asks
\* nothing else of the line), spaced that the line holds ' position ' (with
\* a character before the word), body is what follows it.
TInfo(k, v, d) ==
    [kind |-> "info", score |-> <<k, v>>, depth |-> d, move |-> "",
     pos |-> FALSE, spaced |-> FALSE, body |-> ""]
TBest(mv) ==
    [kind |-> "bestmove", score |-> <<>>, depth |-> None, move |-> mv,
     pos |-> FALSE, spaced |-> FALSE, body |-> ""]
TPos(sp, b) ==
    [kind |-> "position", score |-> <<>>, depth |-> None, move |-> "",
     pos |-> TRUE, spaced |-> sp, body |-> b]
TOther ==
    [kind |-> "other", score |-> <<>>, depth |-> None, move |-> "",
     pos |-> FALSE, spaced |-> FALSE, body |-> ""]
\* a line that INFO_RE or BESTMOVE_RE matches and POS_LINE_RE as well, as
\* '< info string position startpos moves 7g7f score cp 10'
AlsoPos(l, b) == [l EXCEPT !.pos = TRUE, !.spaced = TRUE, !.body = b]
TranscriptLines ==
    {TInfo("cp", 120, Some(3)), TInfo("cp", -50, None), TInfo("mate", 2, Some(5)),
     TInfo("mate", -3, Some(4)), TBest("7g7f"), TBest("3c3d"),
     TPos(TRUE, "startpos moves 7g7f"), TPos(FALSE, "startpos moves 7g7f"),
     AlsoPos(TInfo("cp", 10, None), "startpos moves 7g7f score cp 10"),
     TOther}

\* extract_eval_spikes.py, lines 34-40, make_targets_from_logs.py, lines
\* 55-61: a cp score as it is, a mate score as 100000 with its sign
EvalOfScore(score) ==
    IF score[1] = "cp" THEN score[2]
    ELSE IF score[2] > 0 THEN MATE_CP ELSE -MATE_CP

\* lines 47-52 of parse_log, line 89 of parse_bestmoves_with_positions
FillEval(cur_eval, evals) ==
    IF ~IsNone(cur_eval) THEN Val(cur_eval)
    ELSE IF evals # <<>> THEN evals[Len(evals)] ELSE 0

\* extract_eval_spikes.parse_log(path, None, None), lines 22-56: (evals, moves)
parse_log(lines) ==
    LET RECURSIVE loop(_, _, _, _)
        loop(i, evals, moves, cur_eval) ==
            IF i > Len(lines) THEN [raised |-> None, evals |-> evals, moves |-> moves]
            ELSE LET l == lines[i] IN
                 IF l.kind = "info"
                 THEN loop(i + 1, evals, moves, Some(EvalOfScore(l.score)))
                 ELSE IF l.kind = "bestmove"
                 THEN loop(i + 1, Append(evals, FillEval(cur_eval, evals)),
                           Append(moves, l.move), None)
                 ELSE loop(i + 1, evals, moves, cur_eval)
    IN loop(1, <<>>, <<>>, None)

\* lines 74-78: the first line that POS_LINE_RE matches among
\* lines[i+1 .. min(i+80, n)-1] (0-based), whatever else it holds; pos_after
\* is what follows ' position ' in it. Such a line without ' position '
\* makes split(...)[1] raise IndexError.
FindPosAfter(lines, i) ==
    LET stop == Min2(i - 1 + POS_WINDOW, Len(lines))     \* i is 1-based here
        J == {j \in (i + 1)..stop : lines[j].pos}
    IN IF J = {} THEN [raised |-> None, pos_after |-> None]
       ELSE LET j == MinOf(J) IN
            IF lines[j].spaced
            THEN [raised |-> None, pos_after |-> Some(lines[j].body)]
            ELSE [raised |-> Some("IndexError"), pos_after |-> None]

\* make_targets_from_logs.parse_bestmoves_with_positions, lines 44-93:
\* (best, evals), or the exception raised
parse_bestmoves_with_positions(lines) ==
    LET RECURSIVE loop(_, _, _, _, _, _)
        loop(i, best, evals, cur_eval, last_cp, last_depth) ==
            IF i > Len(lines) THEN [raised |-> None, best |-> best, evals |-> evals]
            ELSE LET l == lines[i] IN
                 IF l.kind = "info"
                 THEN loop(i + 1, best, evals, Some(EvalOfScore(l.score)),
                           Some(EvalOfScore(l.score)),
                           IF IsNone(l.depth) THEN last_depth ELSE Val(l.depth))
                 ELSE IF l.kind = "bestmove"
                 THEN LET f == FindPosAfter(lines, i) IN
                      IF ~IsNone(f.raised)
                      THEN [raised |-> f.raised, best |-> <<>>, evals |-> <<>>]
                      ELSE loop(i + 1,
                                Append(best, [idx |-> Len(best) + 1,
                                              bestmove |-> l.move,
                                              pos_after |-> f.pos_after,
                                              last_cp |-> last_cp,
                                              last_depth |-> last_depth]),
                                Append(evals, FillEval(cur_eval, evals)),
                                None, last_cp, last_depth)
                 ELSE loop(i + 1, best, evals, cur_eval, last_cp, last_depth)
    IN loop(1, <<>>, <<>>, None, None, -1)

trIdle == tr_pc = "off" /\ tr_variant = "" /\ tr_lines = <<>> /\ tr_out = <<>>

InitTranscript ==
    /\ tr_pc = "read"
    /\ tr_variant \in {"spikes", "logs"}
    /\ tr_lines \in SeqsUpTo(TranscriptLines, MaxTranscript)
    /\ tr_out = <<>>

\* extract_eval_spikes.main, line 101: evals, moves = parse_log(path, ...)
ParseLog ==
    /\ tr_pc = "read" /\ tr_variant = "spikes"
    /\ tr_out' = parse_log(tr_lines)
    /\ tr_pc' = "parsed"
    /\ UNCHANGED <<tr_variant, tr_lines>>
    /\ UNCHANGED notTr

\* make_targets_from_logs.main, line 149:
\* best, evals = parse_bestmoves_with_positions(lines)
ParseBestmoves ==
    /\ tr_pc = "read" /\ tr_variant = "logs"
    /\ LET r == parse_bestmoves_with_positions(tr_lines) IN
       /\ tr_out' = r
       /\ tr_pc' = IF IsNone(r.raised) THEN "parsed" ELSE "raised"
    /\ UNCHANGED <<tr_variant, tr_lines>>
    /\ UNCHANGED notTr

NextTranscript == ParseLog \/ ParseBestmoves

\* the decision lines of the transcript, and the k-th of them
DecisionLines == {i \in 1..Len(tr_lines) : tr_lines[i].kind = "bestmove"}
Decision(k) ==
    CHOOSE i \in DecisionLines :
        Cardinality({j \in DecisionLines : j <= i}) = k
\* the decision line before line i, 0 when there is none
PrevDecision(i) ==
    LET P == {j \in DecisionLines : j < i}
    IN IF P = {} THEN 0 ELSE CHOOSE j \in P : \A h \in P : h <= j
\* the score lines between the previous decision line and line i
ScoresSince(i) ==
    {j \in (PrevDecision(i) + 1)..(i - 1) : tr_lines[j].kind = "info"}
\* the evaluation the record of decision line i is to hold
RECURSIVE EvalAt(_)
EvalAt(i) ==
    IF ScoresSince(i) # {}
    THEN LET j == CHOOSE j \in ScoresSince(i) : \A h \in ScoresSince(i) : h <= j
         IN IF tr_lines[j].score[1] = "cp" THEN tr_lines[j].score[2]
            ELSE IF tr_lines[j].score[2] > 0 THEN 100000 ELSE -100000
    ELSE IF PrevDecision(i) = 0 THEN 0 ELSE EvalAt(PrevDecision(i))
\* the records are those of the decision lines, in order, each with its
\* evaluation
RecordsPerDecision ==
    LET n == Cardinality(DecisionLines)
        mvs == IF tr_variant = "spikes" THEN tr_out.moves
               ELSE [k \in 1..Len(tr_out.best) |-> tr_out.best[k].bestmove]
    IN /\ Len(tr_out.evals) = n /\ Len(mvs) = n
       /\ \A k \in 1..n :
             /\ mvs[k] = tr_lines[Decision(k)].move
             /\ tr_out.evals[k] = EvalAt(Decision(k))

\* C15: parsing a transcript yields one record per decision line, in order,
\* with the last score seen since the previous decision line (a mate score
\* as +100000 or -100000), else the evaluation of the previous record, else
\* 0. parse_bestmoves_with_positions does not keep this for a transcript
\* whose position lines start with the word 'position': it raises
\* IndexError at the first decision line that such a line follows.
C15_OneRecordPerDecision ==
    tr_pc # "read" => (tr_pc = "parsed" /\ RecordsPerDecision)

\* What the two parsers do keep: whenever the parsing comes to its end, the
\* records are as stated; parse_log always comes to its end.
ParsedAsStated ==
    /\ tr_pc = "parsed" => RecordsPerDecision
    /\ tr_variant = "spikes" => tr_pc # "raised"
\* The parsing is given up exactly when a decision line is followed by a
\* position line without ' position ' before any other position line.
RaisedOnBarePosition ==
    tr_pc # "read" =>
        (tr_pc = "raised" <=>
            /\ tr_variant = "logs"
            /\ \E i \in DecisionLines : \E j \in (i + 1)..Len(tr_lines) :
                  /\ tr_lines[j].pos /\ ~tr_lines[j].spaced
                  /\ \A h \in (i + 1)..(j - 1) : ~tr_lines[h].pos)
\* a decision without a score takes the evaluation of the record before it
CarriedForwardReached ==
    /\ tr_pc = "parsed" /\ Cardinality(DecisionLines) >= 2
    /\ ScoresSince(Decision(2)) = {}
    /\ tr_out.evals[2] = tr_out.evals[1] /\ tr_out.evals[1] = -100000

(***************************************************************************)
(* First-bad metrics: summarize_first_bad_metrics.py, and the first_bad    *)
(* list that summarize_true_blunders.py writes for it                      *)
(***************************************************************************)
MaxTargets == 2
BAD_TH == -600
TRUE_BLUNDERS_BAD_TH == -300

\* a target of targets.json, as far as the two scripts read it
FbTarget(tag, log, ply, back) ==
    [tag |-> tag, origin_log |-> log, origin_ply |-> ply, back_plies |-> back]
TargetsFile ==
    <<FbTarget("a2b2", "a", 2, 2), FbTarget("a2b1", "a", 2, 1),
      FbTarget("a5b1", "a", 5, 1), FbTarget("b3b1", "b", 3, 1),
      FbTarget("b3b2", "b", 3, 2)>>
\* a targets.json whose first target names no transcript
TargetsFileNoLog ==
    <<FbTarget("x1", "", 1, 1), FbTarget("y1", "y", 1, 1),
      FbTarget("y2", "y", 1, 2)>>
\* run_eval_targets.py, lines 16-20: the names of PROFILES, in their order
PROFILES == <<"base", "rootfull", "gates">>
FbScores == {None, Some(-700), Some(-400)}

\* summary.json as run_eval_targets.py writes it (lines 108-115): for every
\* target one row per profile of PROFILES, in that order; depth is -1 where
\* no evaluation was read
SummaryOf(tgts, cps) ==
    [k \in 1..(Len(PROFILES) * Len(tgts)) |->
        [tag |-> tgts[((k - 1) \div Len(PROFILES)) + 1].tag,
         profile |-> PROFILES[((k - 1) % Len(PROFILES)) + 1],
         eval_cp |-> cps[k],
         depth |-> IF IsNone(cps[k]) THEN -1 ELSE 12]]

\* cp_idx[(tag, profile)] and res[tag][profile]['cp']: the eval_cp of the
\* last row of that tag and profile, None when there is no such row
CpOf(summary, tag, profile) ==
    LET S == {i \in 1..Len(summary) :
                 summary[i].tag = tag /\ summary[i].profile = profile}
    IN IF S = {} THEN None
       ELSE summary[CHOOSE i \in S : \A j \in S : j <= i].eval_cp

\* items.sort(key=back): stable, by increasing back
RECURSIVE SortByBack(_)
SortByBack(items) ==
    IF items = <<>> THEN <<>>
    ELSE LET rest == SortByBack(SubSeq(items, 1, Len(items) - 1))
             x == items[Len(items)]
             k == Cardinality({i \in 1..Len(rest) :
                                  rest[i].back_plies <= x.back_plies})
         IN SubSeq(rest, 1, k) \o <<x>> \o SubSeq(rest, k + 1, Len(rest))

\* the loop `for ... in items: if cp is not None and cp <= bad_th: chosen =
\* ...; break` over the sorted items: the chosen tag, None when the loop ends
\* without one
ChosenOf(items, summary, profile, bad_th) ==
    LET s == SortByBack(items)
        B == {i \in 1..Len(s) :
                 LET cp == CpOf(summary, s[i].tag, profile)
                 IN ~IsNone(cp) /\ Val(cp) <= bad_th}
    IN IF B = {} THEN None ELSE Some(s[MinOf(B)].tag)

\* summarize_true_blunders.py, lines 72-83: one chosen record per origin
\* f"{origin_log}:{origin_ply}" (kept as the pair), by the score of profile
\* 'base'; the tags of the records written to true_blunders_first_bad.csv
first_bad(tgts, summary, bad_th) ==
    LET by_origin == {<<tgts[i].origin_log, tgts[i].origin_ply>> :
                         i \in 1..Len(tgts)}
        items(o) == SelectSeq(tgts,
                        LAMBDA t : <<t.origin_log, t.origin_ply>> = o)
        chosen == {ChosenOf(items(o), summary, "base", bad_th) : o \in by_origin}
    IN {Val(c) : c \in chosen \ {None}}

\* derive_first_bad_tags_from_summary: one chosen tag per origin_log, by the
\* score of the given profile; a target whose origin_log is empty is passed
\* over (line 36), and so is a chosen tag that is empty (line 52)
derive_first_bad_tags_from_summary(tgts, summary, profile, bad_th) ==
    LET t_by_origin == {tgts[i].origin_log : i \in 1..Len(tgts)} \ {""}
        items(o) == SelectSeq(tgts, LAMBDA t : t.origin_log = o)
        chosen == {ChosenOf(items(o), summary, profile, bad_th) :
                      o \in t_by_origin}
    IN {Val(c) : c \in chosen \ {None, Some("")}}

RECURSIVE SumCp(_)
SumCp(rs) ==
    IF rs = <<>> THEN 0
    ELSE (IF IsNone(Head(rs).eval_cp) THEN 0 ELSE Val(Head(rs).eval_cp))
         + SumCp(Tail(rs))
RECURSIVE SumDepth(_)
SumDepth(rs) ==
    IF rs = <<>> THEN 0
    ELSE (IF Head(rs).depth >= 0 THEN Head(rs).depth ELSE 0)
         + SumDepth(Tail(rs))

\* compute_metrics, lines 70-97
compute_metrics(rs) ==
    LET valid_rows == SelectSeq(rs, LAMBDA r : ~IsNone(r.eval_cp))
        n == Len(valid_rows)
        nbad == Len(SelectSeq(valid_rows, LAMBDA r : Val(r.eval_cp) <= BAD_TH))
    IN [total |-> Len(rs),
        valid |-> n,
        bad_th |-> BAD_TH,
        bad_count |-> nbad,
        spike_rate_percent |-> IF n # 0 THEN Some(Frac(nbad * 100, n)) ELSE None,
        avg_cp |-> IF n # 0 THEN Some(Frac(SumCp(rs), n)) ELSE None,
        avg_depth |-> IF n # 0 THEN Some(Frac(SumDepth(rs), n)) ELSE None]

fbIdle ==
    /\ fb_pc = "off" /\ fb_targets = <<>> /\ fb_summary = <<>>
    /\ fb_profile = None /\ fb_csv = None /\ fb_script = FALSE
    /\ fb_tags = {} /\ rows_fb = <<>> /\ fb_out = None

\* the output directory holds targets.json and summary.json; the list of
\* first-bad tags is there already (written by summarize_true_blunders.py
\* --bad-th -600 from the same two files) or not
InitFirstBad ==
    /\ fb_pc = "start"
    /\ \E n \in 1..MaxTargets : \E file \in {TargetsFile, TargetsFileNoLog} :
          /\ fb_targets = SubSeq(file, 1, Min2(n, Len(file)))
          /\ \E cps \in [1..(Len(PROFILES) * n) -> FbScores] :
                fb_summary = SummaryOf(fb_targets, cps)
    /\ fb_profile \in {None, Some("base"), Some("gates")}
    /\ fb_csv \in {None, Some(first_bad(fb_targets, fb_summary, BAD_TH))}
    /\ fb_script \in BOOLEAN
    /\ fb_tags = {} /\ rows_fb = <<>> /\ fb_out = None

\* ensure_first_bad_csv, lines 15-25: the file is used when it is there,
\* else summarize_true_blunders.py is run with its default --bad-th; a run
\* that fails is passed over
EnsureFirstBadCsv ==
    /\ fb_pc = "start"
    /\ fb_csv' = IF ~IsNone(fb_csv) THEN fb_csv
                 ELSE IF fb_script
                      THEN Some(first_bad(fb_targets, fb_summary,
                                          TRUE_BLUNDERS_BAD_TH))
                      ELSE None
    /\ fb_pc' = "csv"
    /\ UNCHANGED <<fb_targets, fb_summary, fb_profile, fb_script, fb_tags,
                   rows_fb, fb_out>>
    /\ UNCHANGED notFb

\* load_first_bad_tags, lines 59-67, and line 107
LoadFirstBadTags ==
    /\ fb_pc = "csv"
    /\ fb_tags' = IF IsNone(fb_csv) THEN {}
                  ELSE {t \in Val(fb_csv) : t # ""}
    /\ fb_pc' = IF fb_tags' = {} /\ ~IsNone(fb_profile) /\ Val(fb_profile) # ""
                THEN "derive" ELSE "tags"
    /\ UNCHANGED <<fb_targets, fb_summary, fb_profile, fb_csv, fb_script,
                   rows_fb, fb_out>>
    /\ UNCHANGED notFb

\* lines 108-110: no tag from the file and a profile given
DeriveTags ==
    /\ fb_pc = "derive"
    /\ fb_tags' = derive_first_bad_tags_from_summary(
                      fb_targets, fb_summary, Val(fb_profile), BAD_TH)
    /\ fb_pc' = "tags"
    /\ UNCHANGED <<fb_targets, fb_summary, fb_profile, fb_csv, fb_script,
                   rows_fb, fb_out>>
    /\ UNCHANGED notFb

\* lines 111-113
NoFirstBad ==
    /\ fb_pc = "tags" /\ fb_tags = {}
    /\ fb_out' = Some([error |-> "no_first_bad"])
    /\ fb_pc' = "done"
    /\ UNCHANGED <<fb_targets, fb_summary, fb_profile, fb_csv, fb_script,
                   fb_tags, rows_fb>>
    /\ UNCHANGED notFb

\* lines 106 and 114-120
WriteMetrics ==
    /\ fb_pc = "tags" /\ fb_tags # {}
    /\ rows_fb' = SelectSeq(FilterRows(fb_summary, fb_profile),
                            LAMBDA r : r.tag \in fb_tags)
    /\ fb_out' = Some([metrics |-> compute_metrics(rows_fb'),
                       profile |-> fb_profile])
    /\ fb_pc' = "done"
    /\ UNCHANGED <<fb_targets, fb_summary, fb_profile, fb_csv, fb_script,
                   fb_tags>>
    /\ UNCHANGED notFb

NextFirstBad ==
    EnsureFirstBadCsv \/ LoadFirstBadTags \/ DeriveTags \/ NoFirstBad
        \/ WriteMetrics

\* the results that were aggregated, each as (tag, profile)
AggregatedResults ==
    IF fb_pc = "done" /\ "metrics" \in DOMAIN Val(fb_out)
    THEN {<<rows_fb[i].tag, rows_fb[i].profile>> : i \in 1..Len(rows_fb)}
    ELSE {}
\* the profiles evaluated: the one asked for, every one when none is
EvaluatedProfiles ==
    IF IsNone(fb_profile) THEN {PROFILES[i] : i \in 1..Len(PROFILES)}
    ELSE {Val(fb_profile)}
\* an origin is a spike: a transcript and a ply of it
OriginsByPly ==
    {<<fb_targets[i].origin_log, fb_targets[i].origin_ply>> :
        i \in 1..Len(fb_targets)}
OriginsByLog == {<<fb_targets[i].origin_log>> : i \in 1..Len(fb_targets)}
OriginOf(t, byPly) ==
    IF byPly THEN <<t.origin_log, t.origin_ply>> ELSE <<t.origin_log>>
ScoreUnder(t, p) ==
    LET S == {i \in 1..Len(fb_summary) :
                 fb_summary[i].tag = t.tag /\ fb_summary[i].profile = p}
    IN IF S = {} THEN None ELSE fb_summary[CHOOSE i \in S : TRUE].eval_cp
IsBadUnder(t, p, th) == ~IsNone(ScoreUnder(t, p)) /\ Val(ScoreUnder(t, p)) <= th
\* the first bad target of origin o under profile p: bad, and no target of
\* the origin with a smaller rewind depth is bad
FirstBadResults(byPly, th) ==
    {<<fb_targets[i].tag, p>> : i \in 1..Len(fb_targets), p \in EvaluatedProfiles}
    \cap
    {<<fb_targets[i].tag, p>> :
        <<i, p>> \in {<<i, p>> \in (1..Len(fb_targets)) \X EvaluatedProfiles :
            /\ IsBadUnder(fb_targets[i], p, th)
            /\ \A j \in 1..Len(fb_targets) :
                  (/\ OriginOf(fb_targets[j], byPly) = OriginOf(fb_targets[i], byPly)
                   /\ fb_targets[j].back_plies < fb_targets[i].back_plies)
                  => ~IsBadUnder(fb_targets[j], p, th)}}

\* C18: the results aggregated under the first-bad restriction are exactly,
\* for each origin and the evaluated profile, the result of the first target
\* (by increasing rewind depth) whose score is <= badThreshold; an origin
\* without such a target contributes nothing.
C18_FirstBadExact ==
    fb_pc = "done" => AggregatedResults = FirstBadResults(TRUE, BAD_TH)

\* whatever is taken for the origin (the spike or the whole transcript) and
\* for the threshold (that of the metrics or that of the list of tags), the
\* aggregated results are the first bad ones
FirstBadExactInSomeReading ==
    fb_pc = "done" =>
        \E byPly \in BOOLEAN : \E th \in {BAD_TH, TRUE_BLUNDERS_BAD_TH} :
            AggregatedResults = FirstBadResults(byPly, th)
\* with profile 'base' and the list of tags made with the threshold of the
\* metrics, the aggregated results are the first bad ones
ExactForBaseWithList ==
    (/\ fb_pc = "done" /\ fb_profile = Some("base")
     /\ fb_csv = Some(first_bad(fb_targets, fb_summary, BAD_TH)))
        => AggregatedResults = FirstBadResults(TRUE, BAD_TH)
\* a target that names no transcript is bad and the first of its origin, and
\* the derivation of the tags passed it over
NoLogPassedOver ==
    /\ fb_pc = "done" /\ fb_profile = Some("gates") /\ IsNone(fb_csv)
    /\ fb_targets[1].origin_log = ""
    /\ CpOf(fb_summary, "x1", "gates") = Some(-700)
    /\ AggregatedResults = {<<"y1", "gates">>}
\* the result of a target that is not bad under the evaluated profile was
\* aggregated, and the first bad one of its origin was not
OtherProfileAggregated ==
    /\ fb_pc = "done" /\ fb_profile = Some("gates")
    /\ <<"a2b1", "gates">> \in AggregatedResults
    /\ CpOf(fb_summary, "a2b1", "gates") = None
    /\ CpOf(fb_summary, "a2b2", "gates") = Some(-700)
    /\ <<"a2b2", "gates">> \notin AggregatedResults

(***************************************************************************)
(* Reading of the move records: main of make_targets_from_moves.py,        *)
(* lines 127-159                                                           *)
(***************************************************************************)
MaxRecords == 3

\* A line of a moves file is kept as what json.loads makes of it: nothing
\* (a blank line), a JSONDecodeError, a value that is not an object, or an
\* object, of which the fields read while grouping are kept.  A field is
\* absent, null, an integer or a string.  The string of game_index or of ply
\* is kept as the sequence of its characters, a character that is not a
\* printable one of ASCII written by the name of its code point ("U+00A0").
JAbsent == [t |-> "absent"]
JNull == [t |-> "null"]
JInt(n) == [t |-> "int", n |-> n]
JStr(s) == [t |-> "str", s |-> s]
LBlank == [json |-> "blank"]
LInvalid == [json |-> "invalid"]
LArray == [json |-> "array"]
LObject(side, game_index, ply) ==
    [json |-> "object", side |-> side, game_index |-> game_index, ply |-> ply]
MoveLines ==
    {LObject(JStr("cand"), JInt(1), JInt(1)),
     LObject(JStr("cand"), JInt(1), JInt(3)),
     LObject(JStr("base"), JInt(1), JInt(2)),
     LObject(JStr("cand"), JStr(<<"U+00A0", "1", "2">>), JAbsent),
     LObject(JStr("cand"), JNull, JInt(2)),
     LObject(JStr("cand"), JStr(<<"x">>), JInt(2)),
     LObject(JStr("cand"), JInt(1), JStr(<<"a">>)),
     LObject(JStr("cand"), JInt(2), JNull),
     LBlank, LInvalid, LArray}
\* the paths given on the command line: two files of the same name, one of
\* them in a directory
MovesPaths == <<"d/m.jsonl", "m.jsonl">>
\* os.path.basename(path): what follows the last '/'
Basename(path) ==
    LET S == {i \in 1..Len(path) : SubSeq(path, i, i) = "/"}
    IN IF S = {} THEN path
       ELSE SubSeq(path, (CHOOSE i \in S : \A j \in S : j <= i) + 1, Len(path))

\* int(s) of a str, s the sequence of its characters: the white space
\* around it is dropped, a sign may lead, and the rest is decimal digits of
\* any script, single underscores allowed between two of them; None for a
\* string that is no such numeral.  The white space int() drops is that of
\* str.isspace (that of ASCII, U+000B, U+0085, U+00A0 and the further spaces
\* of Unicode) but for the separators U+001C to U+001F, which it refuses.
IntOfStr(s) ==
    LET dropped(c) ==
            IsSpace(c) /\ (Len(c) = 1 \/ CodePoint(c) \notin 28..31)
        L == {i \in 1..Len(s) : ~dropped(s[i])}
    IN IF L = {} THEN None
       ELSE LET a == CHOOSE i \in L : \A j \in L : i <= j
                b == CHOOSE i \in L : \A j \in L : j <= i
                a2 == IF s[a] \in {"+", "-"} THEN a + 1 ELSE a
                numeral ==
                    /\ a2 <= b
                    /\ \A i \in a2..b :
                          \/ IsDigit(s[i])
                          \/ /\ s[i] = "_" /\ a2 < i /\ i < b
                             /\ IsDigit(s[i - 1]) /\ IsDigit(s[i + 1])
                RECURSIVE val(_, _)
                val(i, acc) ==
                    IF i > b THEN acc
                    ELSE IF s[i] = "_" THEN val(i + 1, acc)
                    ELSE val(i + 1, acc * 10 + DigitVal(s[i]))
            IN IF ~numeral THEN None
               ELSE Some(IF s[a] = "-" THEN -val(a2, 0) ELSE val(a2, 0))
\* int(v) of Python for these values: the integer itself, the value of a
\* string that is a numeral, ValueError for another string, TypeError for
\* None
IntOf(v) ==
    CASE v.t = "int" -> [ok |-> TRUE, v |-> v.n]
      [] v.t = "str" ->
            IF ~IsNone(IntOfStr(v.s)) THEN [ok |-> TRUE, v |-> Val(IntOfStr(v.s))]
            ELSE [ok |-> FALSE, exc |-> "ValueError"]
      [] OTHER -> [ok |-> FALSE, exc |-> "TypeError"]
\* rec.get(name): None for an absent field as for null
IsPyNone(v) == v.t \in {"absent", "null"}
\* int(r.get("ply", 0)): 0 only when the field is absent
PlyOf(r) == IF r.ply.t = "absent" THEN IntOf(JInt(0)) ELSE IntOf(r.ply)

\* what the body of `for line in f` does with a line: lines 134-149
Skipped(line, side) ==
    \/ line.json \in {"blank", "invalid"}
    \/ /\ line.json = "object"
       /\ \/ side # "both" /\ line.side # JStr(side)
          \/ IsPyNone(line.game_index)
RaisedBy(line, side) ==
    IF Skipped(line, side) THEN None
    ELSE IF line.json # "object" THEN Some("AttributeError")
    ELSE IF ~IntOf(line.game_index).ok THEN Some(IntOf(line.game_index).exc)
    ELSE None

\* by_group.setdefault(key, []).append(rec), the dict kept as the sequence
\* of its items in the order of insertion
Append2Group(groups, key, rec) ==
    IF \E i \in 1..Len(groups) : groups[i].key = key
    THEN [i \in 1..Len(groups) |->
             IF groups[i].key = key
             THEN [groups[i] EXCEPT !.recs = Append(@, rec)] ELSE groups[i]]
    ELSE Append(groups, [key |-> key, recs |-> <<rec>>])

\* sorted(recs, key=lambda r: int(r.get("ply", 0))): stable
RECURSIVE SortByPly(_)
SortByPly(recs) ==
    IF recs = <<>> THEN <<>>
    ELSE LET rest == SortByPly(SubSeq(recs, 1, Len(recs) - 1))
             x == recs[Len(recs)]
             k == Cardinality({i \in 1..Len(rest) :
                                  PlyOf(rest[i].obj).v <= PlyOf(x.obj).v})
         IN SubSeq(rest, 1, k) \o <<x>> \o SubSeq(rest, k + 1, Len(rest))

\* a < b of two str of file names: by the first character that differs, a
\* proper prefix first
NameChars == "-./0123456789_abcdefghijklmnopqrstuvwxyz"
CharRank(c) ==
    CHOOSE i \in 1..Len(NameChars) : SubSeq(NameChars, i, i) = c
StrBefore(a, b) ==
    LET D == {i \in 1..Min2(Len(a), Len(b)) : SubSeq(a, i, i) # SubSeq(b, i, i)}
    IN IF D = {} THEN Len(a) < Len(b)
       ELSE LET i == MinOf(D)
            IN CharRank(SubSeq(a, i, i)) < CharRank(SubSeq(b, i, i))
\* sorted(by_group.items(), key=lambda x: (x[0][0], x[0][1]))
KeyBefore(a, b) ==
    StrBefore(a[1], b[1]) \/ (a[1] = b[1] /\ a[2] < b[2])
RECURSIVE SortGroups(_)
SortGroups(groups) ==
    IF groups = <<>> THEN <<>>
    ELSE LET rest == SortGroups(SubSeq(groups, 1, Len(groups) - 1))
             x == groups[Len(groups)]
             k == Cardinality({i \in 1..Len(rest) : KeyBefore(rest[i].key, x.key)})
         IN SubSeq(rest, 1, k) \o <<x>> \o SubSeq(rest, k + 1, Len(rest))

rdIdle ==
    /\ rd_pc = "off" /\ rd_files = <<>> /\ rd_side = "" /\ rd_f = 0 /\ rd_l = 0
    /\ by_group = <<>> /\ rd_summary = <<>> /\ rd_raised = None
    /\ rd_groups = <<>>

\* one file of up to MaxRecords lines, then none, one that is not there, or
\* one of two records
InitRead ==
    /\ rd_pc = "open"
    /\ \E first \in SeqsUpTo(MoveLines, MaxRecords) :
       \E second \in {<<>>,
                      <<[path |-> MovesPaths[2], lines |-> None]>>,
                      <<[path |-> MovesPaths[2],
                         lines |-> Some(<<LObject(JStr("cand"), JInt(1), JInt(2)),
                                          LObject(JStr("cand"), JInt(1), JInt(1))>>)]>>} :
          rd_files = <<[path |-> MovesPaths[1], lines |-> Some(first)]>> \o second
    /\ rd_side \in {"cand", "both"}
    /\ rd_f = 1 /\ rd_l = 0
    /\ by_group = <<>> /\ rd_summary = <<>> /\ rd_raised = None
    /\ rd_groups = <<>>

\* lines 130-133: the next path is opened
OpenFile ==
    /\ rd_pc = "open" /\ rd_f <= Len(rd_files)
    /\ ~IsNone(rd_files[rd_f].lines)
    /\ rd_l' = 1 /\ rd_pc' = "lines"
    /\ UNCHANGED <<rd_files, rd_side, rd_f, by_group, rd_summary, rd_raised,
                   rd_groups>>
    /\ UNCHANGED notRd

\* lines 150-152: the path is not there
FileNotFound ==
    /\ rd_pc = "open" /\ rd_f <= Len(rd_files)
    /\ IsNone(rd_files[rd_f].lines)
    /\ rd_summary' = Append(rd_summary, <<"SKIP(not found)", rd_files[rd_f].path>>)
    /\ rd_f' = rd_f + 1
    /\ UNCHANGED <<rd_pc, rd_files, rd_side, rd_l, by_group, rd_raised,
                   rd_groups>>
    /\ UNCHANGED notRd

\* lines 134-147: a line that is passed over
SkipLine ==
    /\ rd_pc = "lines" /\ rd_l <= Len(Val(rd_files[rd_f].lines))
    /\ Skipped(Val(rd_files[rd_f].lines)[rd_l], rd_side)
    /\ rd_l' = rd_l + 1
    /\ UNCHANGED <<rd_pc, rd_files, rd_side, rd_f, by_group, rd_summary,
                   rd_raised, rd_groups>>
    /\ UNCHANGED notRd

\* lines 131 and 142-149: a record that is put into its group, which is
\* named by the base name of the path and the game index
KeepRecord ==
    /\ rd_pc = "lines" /\ rd_l <= Len(Val(rd_files[rd_f].lines))
    /\ LET line == Val(rd_files[rd_f].lines)[rd_l] IN
       /\ ~Skipped(line, rd_side) /\ IsNone(RaisedBy(line, rd_side))
       /\ by_group' = Append2Group(by_group,
                          <<Basename(rd_files[rd_f].path),
                            IntOf(line.game_index).v>>,
                          [src |-> <<rd_f, rd_l>>, obj |-> line])
    /\ rd_l' = rd_l + 1
    /\ UNCHANGED <<rd_pc, rd_files, rd_side, rd_f, rd_summary, rd_raised,
                   rd_groups>>
    /\ UNCHANGED notRd

\* lines 142 and 148: an exception that nothing in main catches
RecordRaises ==
    /\ rd_pc = "lines" /\ rd_l <= Len(Val(rd_files[rd_f].lines))
    /\ LET line == Val(rd_files[rd_f].lines)[rd_l] IN
       /\ ~IsNone(RaisedBy(line, rd_side))
       /\ rd_raised' = RaisedBy(line, rd_side)
    /\ rd_pc' = "raised"
    /\ UNCHANGED <<rd_files, rd_side, rd_f, rd_l, by_group, rd_summary,
                   rd_groups>>
    /\ UNCHANGED notRd

\* the end of `for line in f`
EndOfMovesFile ==
    /\ rd_pc = "lines" /\ rd_l > Len(Val(rd_files[rd_f].lines))
    /\ rd_f' = rd_f + 1 /\ rd_pc' = "open"
    /\ UNCHANGED <<rd_files, rd_side, rd_l, by_group, rd_summary, rd_raised,
                   rd_groups>>
    /\ UNCHANGED notRd

\* lines 157-159: the groups in the order of their keys, the records of each
\* by ply (the first ply that int() refuses, in the first such group, ends the
\* run); the generation of the targets from them is SpecTargets
SortRecords ==
    /\ rd_pc = "open" /\ rd_f > Len(rd_files)
    /\ LET refused == {<<g, i>> \in (1..Len(by_group)) \X (1..MaxRecords + 2) :
                      /\ i <= Len(by_group[g].recs)
                      /\ ~PlyOf(by_group[g].recs[i].obj).ok}
       IN IF refused = {}
          THEN /\ rd_groups' = [g \in 1..Len(by_group) |->
                                   [SortGroups(by_group)[g] EXCEPT
                                       !.recs = SortByPly(@)]]
               /\ rd_pc' = "sorted"
               /\ UNCHANGED rd_raised
          ELSE LET g == CHOOSE c \in {d[1] : d \in refused} :
                            \A d \in refused :
                               ~KeyBefore(by_group[d[1]].key, by_group[c].key)
                   i == MinOf({d[2] : d \in {x \in refused : x[1] = g}})
               IN
               /\ rd_raised' = Some(PlyOf(by_group[g].recs[i].obj).exc)
               /\ rd_pc' = "raised"
               /\ UNCHANGED rd_groups
    /\ UNCHANGED <<rd_files, rd_side, rd_f, rd_l, by_group, rd_summary>>
    /\ UNCHANGED notRd

NextRead ==
    OpenFile \/ FileNotFound \/ SkipLine \/ KeepRecord \/ RecordRaises
        \/ EndOfMovesFile \/ SortRecords

\* the lines of the files that are there, each as (file, line)
InputLines ==
    {<<f, l>> \in (1..Len(rd_files)) \X (1..MaxRecords + 1) :
        ~IsNone(rd_files[f].lines) /\ l <= Len(Val(rd_files[f].lines))}
LineAt(x) == Val(rd_files[x[1]].lines)[x[2]]
\* a record of the side asked for with a game index and a ply that are
\* integers (or numerals), the ply possibly left out
WellFormed(line) ==
    /\ line.json = "object"
    /\ line.side.t = "str"
    /\ IntOf(line.game_index).ok
    /\ PlyOf(line).ok
Wanted(line) == rd_side = "both" \/ line.side = JStr(rd_side)
\* the records gone through after the reading
KeptRecords ==
    {rd_groups[g].recs[i].src :
        <<g, i>> \in {<<g, i>> \in (1..Len(rd_groups)) \X (1..(2 * MaxRecords + 2)) :
                          i <= Len(rd_groups[g].recs)}}

\* C19: whatever records the files hold, the reading comes to its end
\* without an exception, and every well-formed record of the side asked for,
\* of every file that is there, is among the records processed: a record
\* that is malformed or cannot be parsed is passed over and aborts nothing.
C19_BadRecordSkipped ==
    rd_pc \in {"sorted", "raised"} =>
        /\ rd_pc = "sorted"
        /\ \A x \in InputLines :
              (WellFormed(LineAt(x)) /\ Wanted(LineAt(x))) => x \in KeptRecords

\* a line that json.loads cannot parse, a blank line and a record without a
\* game index are passed over: when every other line is well-formed the
\* reading ends and keeps exactly the well-formed records asked for
UnparseableSkipped ==
    (/\ rd_pc \in {"sorted", "raised"}
     /\ \A x \in InputLines :
           \/ LineAt(x).json \in {"blank", "invalid"}
           \/ LineAt(x).json = "object" /\ IsPyNone(LineAt(x).game_index)
           \/ WellFormed(LineAt(x)))
        => /\ rd_pc = "sorted"
           /\ KeptRecords = {x \in InputLines :
                                /\ WellFormed(LineAt(x)) /\ Wanted(LineAt(x))
                                /\ ~IsPyNone(LineAt(x).game_index)}
\* the run ends in an exception exactly when a line of the side asked for
\* is not an object or has a game index or a ply that int() refuses
RaisedExactlyOn ==
    rd_pc \in {"sorted", "raised"} =>
        (rd_pc = "raised" <=>
            \E x \in InputLines :
                /\ ~Skipped(LineAt(x), rd_side)
                /\ ~WellFormed(LineAt(x)))
\* a line that is valid JSON and no object ended the run, with a well-formed
\* record after it
RaisedOnNonObject ==
    /\ rd_pc = "raised" /\ rd_raised = Some("AttributeError")
    /\ \E x \in InputLines :
          /\ x[1] = rd_f /\ x[2] > rd_l
          /\ WellFormed(LineAt(x)) /\ Wanted(LineAt(x))
\* a record whose game index is the string of a no-break space and "12" was
\* kept in the group of game 12 of its file
NumeralWithSpaceKept ==
    /\ rd_pc = "sorted"
    /\ \E g \in 1..Len(rd_groups) :
          /\ rd_groups[g].key = <<"m.jsonl", 12>>
          /\ \E x \in InputLines :
                /\ x \in KeptRecords
                /\ LineAt(x).game_index = JStr(<<"U+00A0", "1", "2">>)
\* a line that cannot be parsed was passed over and the records around it
\* were kept
InvalidLinePassedOver ==
    /\ rd_pc = "sorted"
    /\ \E x, y, z \in InputLines :
          /\ x[1] = y[1] /\ y[1] = z[1] /\ x[2] < y[2] /\ y[2] < z[2]
          /\ LineAt(y).json = "invalid"
          /\ {x, z} \subseteq KeptRecords

(***************************************************************************)
(* The waits for an engine reply: _read_until of run_eval_targets.py and   *)
(* the readline loops of run_engine in run_usi_ab_test.py, against a clock *)
(***************************************************************************)
\* the time is counted in ticks of 0.05 s up to MaxClock; the wait of
\* select.select is 0.1 s
MaxClock == 8
SelectWait == 2
WaitTimeouts == {3, 4}

\* an engine: the ticks at which it writes a line, with whether the line
\* holds the awaited pattern, and the tick at which it closes its output
\* (None: never while the driver waits)
WaitEngines ==
    {e \in [lines : SeqsUpTo((1..5) \X BOOLEAN, 2), eof : {None, Some(2), Some(6)}] :
        /\ \A i \in 1..Len(e.lines) :
              /\ i > 1 => e.lines[i - 1][1] < e.lines[i][1]
              /\ ~IsNone(e.eof) => e.lines[i][1] <= Val(e.eof)}

\* the tick at which the next thing to read is there: the next line, else
\* the end of the output; None when the engine is silent from now on
NextData(engine, nread) ==
    IF nread < Len(engine.lines) THEN Some(engine.lines[nread + 1][1])
    ELSE engine.eof
\* the lines written by tick t and not read yet
Available(engine, nread, t) ==
    {i \in (nread + 1)..Len(engine.lines) : engine.lines[i][1] <= t}

\* The driver and the engine each keep their own time. When the driver has
\* just read a line that the engine wrote at the tick of the deadline, the
\* test of the deadline that follows (line 27 of _read_until, lines 85 and
\* 105 of run_engine) may find the time short of it or past it. A tick the
\* driver has come to by its own waiting is past.
AtLineTick ==
    wt_read > 0 /\ wt_engine.lines[wt_read][1] = wt_clock
BeforeDeadline ==
    wt_clock < wt_end \/ (wt_clock = wt_end /\ AtLineTick)

wtIdle ==
    /\ wt_pc = "off" /\ wt_driver = "" /\ wt_engine = <<>> /\ wt_clock = 0
    /\ wt_end = 0 /\ wt_read = 0 /\ wt_ended = None

\* the command has been sent at tick 0 and the wait starts: end = time.time()
\* + timeout_sec (line 25), t0 = time.time() (line 82)
InitWait ==
    /\ wt_pc = "loop"
    /\ wt_driver \in {"_read_until", "run_engine"}
    /\ wt_engine \in WaitEngines
    /\ wt_clock = 0
    /\ wt_end \in WaitTimeouts
    /\ wt_read = 0
    /\ wt_ended = None

\* _read_until, line 27: the loop condition fails, False is returned
ReadUntilDeadline ==
    /\ wt_pc = "loop" /\ wt_driver = "_read_until"
    /\ wt_clock >= wt_end
    /\ wt_ended' = Some(<<"timeout", wt_clock>>)
    /\ wt_pc' = "ended"
    /\ UNCHANGED <<wt_driver, wt_engine, wt_clock, wt_end, wt_read>>
    /\ UNCHANGED notWt

\* _read_until, lines 28-30: select returns empty after 0.1 s, nothing having
\* been written meanwhile; what is written at the tick the wait ends at may
\* be seen by this select or by the next
SelectTimesOut ==
    /\ wt_pc = "loop" /\ wt_driver = "_read_until"
    /\ BeforeDeadline
    /\ LET d == NextData(wt_engine, wt_read)
       IN IF IsNone(d) THEN TRUE ELSE Val(d) >= wt_clock + SelectWait
    /\ wt_clock' = wt_clock + SelectWait
    /\ UNCHANGED <<wt_pc, wt_driver, wt_engine, wt_end, wt_read, wt_ended>>
    /\ UNCHANGED notWt

\* _read_until, lines 28-43: select returns the descriptor as soon as there
\* is something to read; os.read takes what has been written; a line with
\* the pattern ends the wait, the end of the output too
SelectReads ==
    /\ wt_pc = "loop" /\ wt_driver = "_read_until"
    /\ BeforeDeadline
    /\ LET d == NextData(wt_engine, wt_read) IN
       /\ ~IsNone(d) /\ Val(d) <= wt_clock + SelectWait
       /\ LET t == Max2(wt_clock, Val(d))
              got == Available(wt_engine, wt_read, t)
              hit == {i \in got : wt_engine.lines[i][2]}
          IN /\ wt_clock' = t
             /\ IF got = {}
                THEN \* the output was closed: chunk is empty, break
                     /\ wt_ended' = Some(<<"eof", t>>)
                     /\ wt_pc' = "ended"
                     /\ UNCHANGED wt_read
                ELSE IF hit # {}
                THEN /\ wt_ended' = Some(<<"found", t>>)
                     /\ wt_pc' = "ended"
                     /\ wt_read' = MinOf(hit)
                ELSE /\ wt_read' = wt_read + Cardinality(got)
                     /\ UNCHANGED <<wt_pc, wt_ended>>
    /\ UNCHANGED <<wt_driver, wt_engine, wt_end>>
    /\ UNCHANGED notWt

\* run_engine, lines 85-87 and 105-107: the test at the head of the loop
\* finds the time over; the engine is killed and RuntimeError raised. At the
\* tick of the deadline the time measured is past it.
ReadlineDeadline ==
    /\ wt_pc = "loop" /\ wt_driver = "run_engine"
    /\ wt_clock >= wt_end
    /\ wt_ended' = Some(<<"timeout", wt_clock>>)
    /\ wt_pc' = "ended"
    /\ UNCHANGED <<wt_driver, wt_engine, wt_clock, wt_end, wt_read>>
    /\ UNCHANGED notWt

\* run_engine, lines 88-94 and 108-150: readline returns the next line when
\* the engine has written it
ReadlineReturns ==
    /\ wt_pc = "loop" /\ wt_driver = "run_engine"
    /\ BeforeDeadline
    /\ wt_read < Len(wt_engine.lines)
    /\ LET t == Max2(wt_clock, wt_engine.lines[wt_read + 1][1]) IN
       /\ wt_clock' = t
       /\ wt_read' = wt_read + 1
       /\ IF wt_engine.lines[wt_read + 1][2]
          THEN wt_ended' = Some(<<"found", t>>) /\ wt_pc' = "ended"
          ELSE UNCHANGED <<wt_pc, wt_ended>>
    /\ UNCHANGED <<wt_driver, wt_engine, wt_end>>
    /\ UNCHANGED notWt

\* run_engine, lines 88-90: at the end of the output readline returns ''
\* and the loop goes round. A readline that waited for the output to be
\* closed until the deadline or later returns at that tick, and the test of
\* line 85 finds the time over at once; otherwise the loop spins and a tick
\* passes.
ReadlineAtEof ==
    /\ wt_pc = "loop" /\ wt_driver = "run_engine"
    /\ BeforeDeadline
    /\ wt_read = Len(wt_engine.lines) /\ ~IsNone(wt_engine.eof)
    /\ wt_clock' =
          IF Val(wt_engine.eof) > wt_clock /\ Val(wt_engine.eof) >= wt_end
          THEN Val(wt_engine.eof)
          ELSE Max2(wt_clock, Val(wt_engine.eof)) + 1
    /\ UNCHANGED <<wt_pc, wt_driver, wt_engine, wt_end, wt_read, wt_ended>>
    /\ UNCHANGED notWt

\* run_engine, line 88: the engine writes nothing more and keeps its output
\* open: readline does not return, and the time goes by
ReadlineBlocks ==
    /\ wt_pc \in {"loop", "blocked"} /\ wt_driver = "run_engine"
    /\ wt_pc = "loop" => BeforeDeadline
    /\ wt_read = Len(wt_engine.lines) /\ IsNone(wt_engine.eof)
    /\ wt_clock < MaxClock
    /\ wt_clock' = wt_clock + 1
    /\ wt_pc' = "blocked"
    /\ UNCHANGED <<wt_driver, wt_engine, wt_end, wt_read, wt_ended>>
    /\ UNCHANGED notWt

NextWait ==
    ReadUntilDeadline \/ SelectTimesOut \/ SelectReads \/ ReadlineDeadline
        \/ ReadlineReturns \/ ReadlineAtEof \/ ReadlineBlocks

\* C21: every wait for an engine reply has ended once its deadline is past,
\* whatever the engine writes and even if it writes nothing (the poll that
\* was under way at the deadline, of at most 0.1 s, is allowed for).
C21_WaitEndsByDeadline ==
    /\ wt_clock > wt_end + SelectWait => ~IsNone(wt_ended)
    /\ ~IsNone(wt_ended) => Val(wt_ended)[2] <= wt_end + SelectWait

\* the wait of _read_until ends within one poll of its deadline
ReadUntilEndsInTime ==
    wt_driver = "_read_until" =>
        /\ wt_clock <= wt_end + SelectWait
        /\ ~IsNone(wt_ended) => Val(wt_ended)[2] <= wt_end + SelectWait
\* run_engine is held in readline only by an engine that is silent and has
\* not closed its output
BlockedOnlyOnSilence ==
    wt_pc = "blocked" =>
        /\ wt_driver = "run_engine"
        /\ wt_read = Len(wt_engine.lines) /\ IsNone(wt_engine.eof)
\* the engine wrote nothing at all and run_engine is still in readline after
\* the deadline
BlockedPastDeadline ==
    /\ wt_pc = "blocked" /\ wt_engine.lines = <<>>
    /\ wt_clock = MaxClock /\ wt_clock > wt_end + SelectWait
    /\ IsNone(wt_ended)
\* the engine wrote nothing at all and _read_until returned at its deadline
SilentReadUntilReturned ==
    /\ wt_driver = "_read_until" /\ wt_engine.lines = <<>>
    /\ IsNone(wt_engine.eof)
    /\ wt_ended = Some(<<"timeout", wt_end>>)

(***************************************************************************)
(* Rewound copies of a target set: expand_targets_back.py                  *)
(***************************************************************************)
\* toks[:-back_plies] when back_plies > 0 and enough tokens are there, toks
\* as it is otherwise (lines 12-13)
ChopToksBack(toks, back_plies) ==
    IF back_plies > 0 /\ Len(toks) >= back_plies
    THEN SubSeq(toks, 1, Len(toks) - back_plies)
    ELSE toks

\* expand_targets_back.chop_moves; pos_line is an optional string
chop_moves_back(pos_line, back_plies) ==
    IF IsNone(pos_line) \/ Val(pos_line) = <<>> THEN pos_line
    ELSE LET s == Val(pos_line) IN
         IF ~Contains(s, STR_MOVES) THEN Some(s)
         ELSE LET parts == SplitOnce(s, STR_MOVES)
                  head == parts[1]
                  toks == ChopToksBack(SplitWs(Strip(parts[2])), back_plies)
              IN Some(IF toks # <<>>
                      THEN head \o STR_MOVES \o Join(toks, <<" ">>)
                      ELSE head)

\* `a or b` of two optional strings: a when it is a non-empty string
OrElse(a, b) == IF ~IsNone(a) /\ Val(a) # <<>> THEN a ELSE b

\* lines 28-35: the entries made of one base target t, for k = min .. max
ExpandOne(t, mn, mx) ==
    LET pos == OrElse(t.pre_position, t.pos_after) IN
    [j \in 1..(IF mx >= mn THEN mx - mn + 1 ELSE 0) |->
        LET k == mn + j - 1 IN
        [tag |-> <<t.tag, "_back", k>>,
         pre_position |-> chop_moves_back(pos, k),
         origin |-> t.tag,
         back_plies |-> k]]

\* Inputs: the moves of the base positions are the first plies of one game
GameLine ==
    << <<"7", "g", "7", "f">>, <<"3", "c", "3", "d">>,
       <<"8", "h", "2", "b">>, <<"3", "a", "2", "b">> >>
BaseHeads == {HEAD_STARTPOS, HEAD_SFEN}
\* a base target holds its position as pre_position, or as pos_after beside
\* an empty pre_position; head and toks say what the position is made of
BaseTargets ==
    {[tag |-> tg, head |-> h, toks |-> SubSeq(GameLine, 1, n),
      pre_position |-> IF pre THEN Some(MakePos(h, SubSeq(GameLine, 1, n)))
                              ELSE Some(<<>>),
      pos_after |-> IF pre THEN None
                           ELSE Some(MakePos(h, SubSeq(GameLine, 1, n)))] :
        tg \in {"g1_10"}, h \in BaseHeads, n \in 0..MaxBaseMoves,
        pre \in BOOLEAN}

ebIdle ==
    /\ eb_pc = "off" /\ eb_base = <<>> /\ eb_min = 0 /\ eb_max = 0
    /\ eb_i = 0 /\ eb_out = <<>>

\* lines 17-26: the arguments are parsed and the base targets loaded
InitExpand ==
    /\ eb_pc = "loop"
    /\ eb_base \in SeqsUpTo(BaseTargets, MaxBaseTargets)
    /\ eb_min \in 0..MaxExpandBack
    /\ eb_max \in 0..MaxExpandBack
    /\ eb_i = 1
    /\ eb_out = <<>>

\* lines 27-35: one pass of `for t in base`
ExpandTarget ==
    /\ eb_pc = "loop" /\ eb_i <= Len(eb_base)
    /\ eb_out' = eb_out \o ExpandOne(eb_base[eb_i], eb_min, eb_max)
    /\ eb_i' = eb_i + 1
    /\ UNCHANGED <<eb_pc, eb_base, eb_min, eb_max>>
    /\ UNCHANGED notEb

\* line 36: the expanded targets are written
WriteExpanded ==
    /\ eb_pc = "loop" /\ eb_i > Len(eb_base)
    /\ eb_pc' = "done"
    /\ UNCHANGED <<eb_base, eb_min, eb_max, eb_i, eb_out>>
    /\ UNCHANGED notEb

NextExpand == ExpandTarget \/ WriteExpanded

\* the number of rewind depths of the run
Depths == IF eb_max >= eb_min THEN eb_max - eb_min + 1 ELSE 0
\* the entry written for the i-th base target and depth k
EntryOf(i, k) == eb_out[(i - 1) * Depths + (k - eb_min + 1)]

\* C24: the written set holds, for each base target and each k in
\* [min, max], in this order, one target that names the base target and k
\* and whose position is the base position rewound by k plies: the head with
\* the moves but the last k, and the bare head when k is greater than or
\* equal to the number of moves.
C24_OneRewoundTargetEach ==
    eb_pc = "done" =>
        /\ Len(eb_out) = Len(eb_base) * Depths
        /\ \A i \in 1..Len(eb_base) : \A k \in eb_min..eb_max :
              /\ EntryOf(i, k).origin = eb_base[i].tag
              /\ EntryOf(i, k).back_plies = k
              /\ EntryOf(i, k).pre_position =
                    Some(Rewound(eb_base[i].head, eb_base[i].toks, k))

\* What does hold: one target for each base target and each k, rewound by k
\* plies when the base position has at least k moves and left as it is when
\* it has fewer.
RewoundUpToLength ==
    eb_pc = "done" =>
        /\ Len(eb_out) = Len(eb_base) * Depths
        /\ \A i \in 1..Len(eb_base) : \A k \in eb_min..eb_max :
              /\ EntryOf(i, k).origin = eb_base[i].tag
              /\ EntryOf(i, k).back_plies = k
              /\ EntryOf(i, k).pre_position =
                    Some(IF k <= Len(eb_base[i].toks)
                         THEN Rewound(eb_base[i].head, eb_base[i].toks, k)
                         ELSE MakePos(eb_base[i].head, eb_base[i].toks))

\* a base position of one move was rewound by two plies and kept its move
RewoundPastStartKeepsMoves ==
    /\ eb_pc = "done" /\ Len(eb_base) >= 1 /\ eb_min <= 2 /\ 2 <= eb_max
    /\ Len(eb_base[1].toks) = 1
    /\ EntryOf(1, 2).pre_position =
          Some(MakePos(eb_base[1].head, eb_base[1].toks))

(***************************************************************************)
(* Context windows round the spikes: expand_windows of                     *)
(* extract_eval_spikes.py                                                  *)
(***************************************************************************)
\* range(a, b + 1) with a = max(1, idx - back), b = min(nmax, idx + forward)
\* without the two clips
WindowOf_unclipped(idx, back, forward, nmax) ==
    (idx - back)..(idx + forward)

WindowOf(idx, back, forward, nmax) ==
    Max2(1, idx - back)..Min2(nmax, idx + forward)

\* sorted(S) of a set of integers: its elements in increasing order
SortedList(S) ==
    LET RECURSIVE loop(_, _)
        loop(rest, acc) ==
            IF rest = {} THEN acc
            ELSE LET m == MinOf(rest) IN loop(rest \ {m}, Append(acc, m))
    IN loop(S, <<>>)

ewIdle ==
    /\ ew_pc = "off" /\ ew_indices = <<>> /\ ew_back = 0 /\ ew_forward = 0
    /\ ew_nmax = 0 /\ ew_i = 0 /\ wanted = {} /\ ew_out = None

\* line 78: expand_windows is entered with wanted = set()
InitWindows ==
    /\ ew_pc = "loop"
    /\ ew_indices \in SeqsUpTo(0..(MaxPly + 1), MaxIndices)
    /\ ew_back \in 0..MaxRadius
    /\ ew_forward \in 0..MaxRadius
    /\ ew_nmax \in 0..MaxPly
    /\ ew_i = 1
    /\ wanted = {}
    /\ ew_out = None

\* lines 79-83: one pass of `for idx in indices`
AddWindow ==
    /\ ew_pc = "loop" /\ ew_i <= Len(ew_indices)
    /\ wanted' = wanted \cup
          WindowOf(ew_indices[ew_i], ew_back, ew_forward, ew_nmax)
    /\ ew_i' = ew_i + 1
    /\ UNCHANGED <<ew_pc, ew_indices, ew_back, ew_forward, ew_nmax, ew_out>>
    /\ UNCHANGED notEw

\* line 84: return sorted(wanted)
ReturnSorted ==
    /\ ew_pc = "loop" /\ ew_i > Len(ew_indices)
    /\ ew_out' = Some(SortedList(wanted))
    /\ ew_pc' = "done"
    /\ UNCHANGED <<ew_indices, ew_back, ew_forward, ew_nmax, ew_i, wanted>>
    /\ UNCHANGED notEw

NextWindows == AddWindow \/ ReturnSorted

\* the plies within reach of a spike index
InSomeWindow(p) ==
    \E j \in 1..Len(ew_indices) :
        ew_indices[j] - ew_back <= p /\ p <= ew_indices[j] + ew_forward

\* C25: the returned list is strictly increasing and holds exactly the
\* plies p with 1 <= p <= n and idx - back <= p <= idx + forward for at
\* least one spike index idx.
C25_WindowsExact ==
    ew_pc = "done" =>
        LET lst == Val(ew_out) IN
        /\ \A j \in 1..(Len(lst) - 1) : lst[j] < lst[j + 1]
        /\ {lst[j] : j \in 1..Len(lst)}
              = {p \in (0 - MaxRadius)..(2 * MaxPly + MaxRadius) :
                    1 <= p /\ p <= ew_nmax /\ InSomeWindow(p)}

\* C25 witness: two spikes whose windows overlap and reach past both ends
\* of a game of four plies gave the plies 1 to 4, each once
C25_Witness ==
    /\ ew_pc = "done"
    /\ ew_indices = <<3, 1>> /\ ew_back = 2 /\ ew_forward = 2 /\ ew_nmax = 4
    /\ ew_out = Some(<<1, 2, 3, 4>>)

(***************************************************************************)
(* The option names of the two target runners: run_one of                  *)
(* run_eval_targets.py and of run_eval_targets_params.py                   *)
(***************************************************************************)
STR_ROOTSEEGATE ==
    <<"R", "o", "o", "t", "S", "e", "e", "G", "a", "t", "e">>
STR_ROOT ==
    <<"R", "o", "o", "t">>
STR_MATEGATE ==
    <<"M", "a", "t", "e", "G", "a", "t", "e">>
STR_SEARCHPARAMS ==
    <<"S", "e", "a", "r", "c", "h", "P", "a", "r", "a", "m", "s", ".">>

\* str.startswith
StartsWith(s, pre) == MatchAt(s, pre, 1)

\* run_eval_targets.py lines 65-69: the name sent for the option key k
OptionNameTargets(k) ==
    IF StartsWith(k, STR_ROOTSEEGATE) THEN k ELSE STR_SEARCHPARAMS \o k

\* run_eval_targets_params.py lines 59-63: the name sent for the key k
OptionNameParams(k) ==
    IF StartsWith(k, STR_ROOTSEEGATE) \/ StartsWith(k, STR_ROOT)
       \/ StartsWith(k, STR_MATEGATE)
    THEN k ELSE STR_SEARCHPARAMS \o k

\* f'setoption name {name} value {v}', kept as the two texts it is made of
SetOption(name, v) == [name |-> name, value |-> v]

\* Inputs: the keys of PROFILES (run_eval_targets.py lines 16-20), two keys
\* of the params of the example configuration of spsa_optimize.py, and a
\* key of the MateGate family that run_eval_targets_params.py line 60 names
KEY_ROOTBEAM ==
    <<"R", "o", "o", "t", "B", "e", "a", "m", "F", "o", "r", "c", "e", "F",
      "u", "l", "l", "C", "o", "u", "n", "t">>
KEY_XSEE ==
    <<"R", "o", "o", "t", "S", "e", "e", "G", "a", "t", "e", ".", "X", "S",
      "E", "E">>
KEY_LMR ==
    <<"L", "M", "R", "_", "K", "_", "x", "1", "0", "0">>
KEY_QS ==
    <<"Q", "S", "_", "M", "a", "r", "g", "i", "n", "C", "a", "p", "t", "u",
      "r", "e">>
KEY_MATEGATE ==
    <<"M", "a", "t", "e", "G", "a", "t", "e", ".", "M", "i", "n", "D", "e",
      "p", "t", "h">>
OptionKeys == {KEY_ROOTBEAM, KEY_XSEE, KEY_LMR, KEY_QS, KEY_MATEGATE}
OptionValues == {"0", "4"}
\* the items of an options dict: no key twice
OptionDicts ==
    {d \in SeqsUpTo(OptionKeys \X OptionValues, MaxOptions) :
        \A i, j \in 1..Len(d) : i # j => d[i][1] # d[j][1]}

onIdle ==
    /\ on_pc = "off" /\ on_opts = <<>> /\ on_i = 0
    /\ on_sent_targets = <<>> /\ on_sent_params = <<>>

\* the two runners, each with an engine of its own
Runners == {"targets", "params"}

\* both runners have sent the common options and come to the options of the
\* profile (opts of run_eval_targets, params of run_eval_targets_params);
\* on_pc and on_i hold the place of each
InitNames ==
    /\ on_pc = [r \in Runners |-> "options"]
    /\ on_opts \in OptionDicts
    /\ on_i = [r \in Runners |-> 1]
    /\ on_sent_targets = <<>> /\ on_sent_params = <<>>

\* one pass of `for k,v in opts.items()` (run_eval_targets.py 65-69) or of
\* `for k,v in (params or {}).items()` (run_eval_targets_params.py 59-63):
\* the command is written, or the write of send raises BrokenPipeError, the
\* engine having closed its input, and nothing catches it
SendOption ==
    \E r \in Runners :
        /\ on_pc[r] = "options" /\ on_i[r] <= Len(on_opts)
        /\ UNCHANGED on_opts
        /\ UNCHANGED notOn
        /\ LET k == on_opts[on_i[r]][1]
               v == on_opts[on_i[r]][2]
           IN \/ /\ IF r = "targets"
                       THEN /\ on_sent_targets' =
                                  Append(on_sent_targets,
                                         SetOption(OptionNameTargets(k), v))
                            /\ UNCHANGED on_sent_params
                       ELSE /\ on_sent_params' =
                                  Append(on_sent_params,
                                         SetOption(OptionNameParams(k), v))
                            /\ UNCHANGED on_sent_targets
                 /\ on_i' = [on_i EXCEPT ![r] = @ + 1]
                 /\ UNCHANGED on_pc
              \/ /\ on_pc' = [on_pc EXCEPT ![r] = "raised"]
                 /\ UNCHANGED <<on_i, on_sent_targets, on_sent_params>>

\* send('isready') after the last option (run_eval_targets.py line 70,
\* run_eval_targets_params.py line 64), written or raising BrokenPipeError
SendIsready ==
    \E r \in Runners :
        /\ on_pc[r] = "options" /\ on_i[r] > Len(on_opts)
        /\ \E pc \in {"isready", "raised"} :
              on_pc' = [on_pc EXCEPT ![r] = pc]
        /\ UNCHANGED <<on_opts, on_i, on_sent_targets, on_sent_params>>
        /\ UNCHANGED notOn

NextNames == SendOption \/ SendIsready

\* C28: for every option key sent so far the two runners have sent the same
\* option name: either both the bare key, or both the key prefixed with
\* "SearchParams.".
C28_SameOptionName ==
    \A j \in 1..Min2(Len(on_sent_targets), Len(on_sent_params)) :
        LET k == on_opts[j][1] IN
        \/ /\ on_sent_targets[j].name = k
           /\ on_sent_params[j].name = k
        \/ /\ on_sent_targets[j].name = STR_SEARCHPARAMS \o k
           /\ on_sent_params[j].name = STR_SEARCHPARAMS \o k

\* What does hold: the runners agree on every key that starts with
\* "RootSeeGate" and on every key that starts with neither "Root" nor
\* "MateGate"; each sends the value it was given.
SameNameOutsideRootAndMateGate ==
    \A j \in 1..Min2(Len(on_sent_targets), Len(on_sent_params)) :
        LET k == on_opts[j][1] IN
        /\ on_sent_targets[j].value = on_opts[j][2]
        /\ on_sent_params[j].value = on_opts[j][2]
        /\ (StartsWith(k, STR_ROOTSEEGATE)
             \/ ~(StartsWith(k, STR_ROOT) \/ StartsWith(k, STR_MATEGATE)))
            => on_sent_targets[j].name = on_sent_params[j].name

\* the key of every profile of PROFILES, RootBeamForceFullCount, was sent
\* with the prefix by run_eval_targets and bare by run_eval_targets_params
RootBeamSentTwoWays ==
    /\ on_pc = [r \in Runners |-> "isready"]
    /\ \E j \in 1..Len(on_opts) :
          /\ on_opts[j][1] = KEY_ROOTBEAM
          /\ on_sent_targets[j].name = STR_SEARCHPARAMS \o KEY_ROOTBEAM
          /\ on_sent_params[j].name = KEY_ROOTBEAM

(***************************************************************************)
(* Specifications: one per program                                         *)
(***************************************************************************)
\* extract_eval_spikes.py
StartSpikes == InitSpikes /\ chIdle /\ tgIdle /\ mtIdle /\ opIdle /\ rgIdle /\ ssIdle /\ abIdle /\ prIdle /\ trIdle /\ fbIdle /\ rdIdle /\ wtIdle /\ ebIdle /\ ewIdle /\ onIdle
SpecSpikes == StartSpikes /\ [][NextSpikes]_vars

\* chop_moves applied to one position
StartChop == InitChop /\ spIdle /\ tgIdle /\ mtIdle /\ opIdle /\ rgIdle /\ ssIdle /\ abIdle /\ prIdle /\ trIdle /\ fbIdle /\ rdIdle /\ wtIdle /\ ebIdle /\ ewIdle /\ onIdle
SpecChop == StartChop /\ [][NextChop]_vars

\* make_targets_from_logs.py, make_targets_from_moves.py
StartTargets == InitTargets /\ spIdle /\ chIdle /\ mtIdle /\ opIdle /\ rgIdle /\ ssIdle /\ abIdle /\ prIdle /\ trIdle /\ fbIdle /\ rdIdle /\ wtIdle /\ ebIdle /\ ewIdle /\ onIdle
SpecTargets == StartTargets /\ [][NextTargets]_vars

\* summarize_drop_metrics.py
StartMetrics == InitMetrics /\ spIdle /\ chIdle /\ tgIdle /\ opIdle /\ rgIdle /\ ssIdle /\ abIdle /\ prIdle /\ trIdle /\ fbIdle /\ rdIdle /\ wtIdle /\ ebIdle /\ ewIdle /\ onIdle
SpecMetrics == StartMetrics /\ [][NextMetrics]_vars

\* spsa_optimize.py
StartSPSA == InitSPSA /\ spIdle /\ chIdle /\ tgIdle /\ mtIdle /\ rgIdle /\ ssIdle /\ abIdle /\ prIdle /\ trIdle /\ fbIdle /\ rdIdle /\ wtIdle /\ ebIdle /\ ewIdle /\ onIdle
SpecSPSA == StartSPSA /\ [][NextSPSA]_vars

\* run_regression_checks.py
StartRegress == InitRegress /\ spIdle /\ chIdle /\ tgIdle /\ mtIdle /\ opIdle /\ ssIdle /\ abIdle /\ prIdle /\ trIdle /\ fbIdle /\ rdIdle /\ wtIdle /\ ebIdle /\ ewIdle /\ onIdle
SpecRegress == StartRegress /\ [][NextRegress]_vars

\* run_eval_targets.py: one engine session
StartEngineSession ==
    /\ InitSession /\ spIdle /\ chIdle /\ tgIdle /\ mtIdle /\ opIdle /\ rgIdle
    /\ abIdle /\ prIdle /\ trIdle /\ fbIdle /\ rdIdle /\ wtIdle /\ ebIdle /\ ewIdle /\ onIdle
SpecSession == StartEngineSession /\ [][NextSession]_vars

\* run_usi_ab_test.py
StartAB ==
    /\ InitAB /\ spIdle /\ chIdle /\ tgIdle /\ mtIdle /\ opIdle /\ rgIdle
    /\ ssIdle /\ prIdle /\ trIdle /\ fbIdle /\ rdIdle /\ wtIdle /\ ebIdle /\ ewIdle /\ onIdle
SpecAB == StartAB /\ [][NextAB]_vars

\* run_one's reading of the collected lines
StartParse ==
    /\ InitParse /\ spIdle /\ chIdle /\ tgIdle /\ mtIdle /\ opIdle /\ rgIdle
    /\ ssIdle /\ abIdle /\ trIdle /\ fbIdle /\ rdIdle /\ wtIdle /\ ebIdle /\ ewIdle /\ onIdle
SpecParse == StartParse /\ [][NextParse]_vars

\* the two drivers of engine sessions: a run is a session of run_one or a
\* run of the A/B test
StartDrivers == StartEngineSession \/ StartAB
NextDrivers == NextSession \/ NextAB
SpecDrivers == StartDrivers /\ [][NextDrivers]_vars

\* parse_log and parse_bestmoves_with_positions
StartTranscript ==
    /\ InitTranscript /\ spIdle /\ chIdle /\ tgIdle /\ mtIdle /\ opIdle
    /\ rgIdle /\ ssIdle /\ abIdle /\ prIdle /\ fbIdle /\ rdIdle /\ wtIdle /\ ebIdle /\ ewIdle /\ onIdle
SpecTranscript == StartTranscript /\ [][NextTranscript]_vars

\* summarize_first_bad_metrics.py
StartFirstBad ==
    /\ InitFirstBad /\ spIdle /\ chIdle /\ tgIdle /\ mtIdle /\ opIdle
    /\ rgIdle /\ ssIdle /\ abIdle /\ prIdle /\ trIdle /\ rdIdle /\ wtIdle /\ ebIdle /\ ewIdle /\ onIdle
SpecFirstBad == StartFirstBad /\ [][NextFirstBad]_vars

\* make_targets_from_moves.py, the reading of the records
StartRead ==
    /\ InitRead /\ spIdle /\ chIdle /\ tgIdle /\ mtIdle /\ opIdle
    /\ rgIdle /\ ssIdle /\ abIdle /\ prIdle /\ trIdle /\ fbIdle /\ wtIdle /\ ebIdle /\ ewIdle /\ onIdle
SpecRead == StartRead /\ [][NextRead]_vars

\* the waits of the two drivers
StartWait ==
    /\ InitWait /\ spIdle /\ chIdle /\ tgIdle /\ mtIdle /\ opIdle
    /\ rgIdle /\ ssIdle /\ abIdle /\ prIdle /\ trIdle /\ fbIdle /\ rdIdle /\ ebIdle /\ ewIdle /\ onIdle
SpecWait == StartWait /\ [][NextWait]_vars
StartExpand ==
    /\ InitExpand /\ spIdle /\ chIdle /\ tgIdle /\ mtIdle /\ opIdle
    /\ rgIdle /\ ssIdle /\ abIdle /\ prIdle /\ trIdle /\ fbIdle /\ rdIdle
    /\ wtIdle /\ ewIdle /\ onIdle
SpecExpand == StartExpand /\ [][NextExpand]_vars
StartWindows ==
    /\ InitWindows /\ spIdle /\ chIdle /\ tgIdle /\ mtIdle /\ opIdle
    /\ rgIdle /\ ssIdle /\ abIdle /\ prIdle /\ trIdle /\ fbIdle /\ rdIdle
    /\ wtIdle /\ ebIdle /\ onIdle
SpecWindows == StartWindows /\ [][NextWindows]_vars
StartNames ==
    /\ InitNames /\ spIdle /\ chIdle /\ tgIdle /\ mtIdle /\ opIdle
    /\ rgIdle /\ ssIdle /\ abIdle /\ prIdle /\ trIdle /\ fbIdle /\ rdIdle
    /\ wtIdle /\ ebIdle /\ ewIdle
SpecNames == StartNames /\ [][NextNames]_vars

====
